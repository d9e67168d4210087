------------------------------ MODULE RunProofs ------------------------------
(* Safety of the components around a running agent, for any number of runs,     *)
(* sessions, writers and lines, any budget and any faults: its launch and the    *)
(* calls it spends, the worker thread, the prompt file, the log, and the exit of *)
(* the program around it.                                                        *)
EXTENDS MCAgentRuns, FiniteSetTheorems, WellFoundedInduction, TLAPS

-----------------------------------------------------------------------------
(* The prompt file (GrokRun).  A binding that was cleaned up without a failure   *)
(* has no file, and nothing makes one once the launch is over.                   *)

PromptInv ==
    /\ gr_bind \in [done : BOOLEAN, failed : BOOLEAN]
    /\ gr_call \in [stop : {"none", "asked", "returned"}, kill : {"none", "asked", "returned"},
                    wait : {"none", "waiting", "completed", "failed"}]
    /\ gr_auth = "issued" => gr_file = "none" /\ gr_at \in {"new", "refused", "crashed"}
    /\ gr_bind.done => gr_at \notin Launching
    /\ gr_bind.done /\ ~gr_bind.failed => gr_file = "none"
    /\ gr_call.wait = "completed" => gr_bind.done /\ ~gr_bind.failed

\* A cleanup of the binding that says it has removed the file has removed it, now or
\* before.
LEMMA Cleanups ==
    ASSUME PromptInv, NEW removal \in Results, CleansUpBinding(removal)
    PROVE  /\ gr_bind' \in [done : BOOLEAN, failed : BOOLEAN] /\ gr_bind'.done
           /\ ~gr_bind'.failed => gr_file' = "none"
           /\ gr_file = "none" => gr_file' = "none"
           /\ removal.ok => ~gr_bind'.failed
           /\ gr_bind.done => gr_bind' = gr_bind
<1>1. CASE gr_bind.done
  BY <1>1 DEF CleansUpBinding, PromptInv, Remembered, Results
<1>2. CASE ~gr_bind.done
  <2>1. /\ removal \in Removals /\ Removes(removal)
        /\ gr_bind' = [done |-> TRUE, failed |-> ~removal.ok]
    BY <1>2 DEF CleansUpBinding
  <2>2. removal.ok => ~removal.left
    BY <2>1 DEF Removals
  <2>3. removal.ok \in BOOLEAN /\ removal.left \in BOOLEAN
    BY DEF Results
  <2>4. /\ gr_bind' \in [done : BOOLEAN, failed : BOOLEAN]
        /\ gr_bind'.done /\ (gr_bind'.failed <=> ~removal.ok)
    BY <2>1, <2>3
  <2> QED BY <1>2, <2>1, <2>2, <2>4 DEF Removes
<1> QED BY <1>1, <1>2

LEMMA PromptStep == PromptInv /\ [GrokNext]_grVars => PromptInv'
<1> SUFFICES ASSUME PromptInv, [GrokNext]_grVars PROVE PromptInv'
  OBVIOUS
<1> USE DEF PromptInv, Launching
<1>1. CASE RefusesLaunch \/ ConsumesAuthorization \/ StagesDirectory \/ OpensFile
  BY <1>1 DEF RefusesLaunch, ConsumesAuthorization, StagesDirectory, OpensFile
<1>2. CASE WritesFile \/ VerifiesFile \/ BuildFails \/ RecordsSession
  BY <1>2 DEF WritesFile, VerifiesFile, BuildFails, RecordsSession, Refused
<1>3. CASE StartsAgent
  <2>1. CASE gr_at' = "running" /\ UNCHANGED <<gr_file, gr_bind>>
    BY <1>3, <2>1 DEF StartsAgent
  <2>2. ASSUME NEW removal \in Results, CleansUpBinding(removal), Refused(removal)
        PROVE  PromptInv'
    BY <1>3, <2>2, Cleanups DEF StartsAgent, Refused
  <2> QED BY <1>3, <2>1, <2>2 DEF StartsAgent
<1>4. CASE Holds \/ AgentEnds
  BY <1>4 DEF Holds, AgentEnds
<1>5. ASSUME NEW call \in {"stop", "kill", "wait"}, Calls(call) PROVE PromptInv'
  BY <1>5 DEF Calls
<1>6. ASSUME NEW call \in {"stop", "kill"}, StopReturns(call) PROVE PromptInv'
  BY <1>6, Cleanups DEF StopReturns
<1>7. CASE WaitReturns
  BY <1>7, Cleanups DEF WaitReturns
<1>8. CASE CleansUpAbandoned
  BY <1>8, Cleanups DEF CleansUpAbandoned
<1>9. CASE ProgramDies
  BY <1>9 DEF ProgramDies
<1>10. CASE UNCHANGED grVars
  BY <1>10 DEF grVars
<1> QED BY <1>1, <1>2, <1>3, <1>4, <1>5, <1>6, <1>7, <1>8, <1>9, <1>10 DEF GrokNext

LEMMA PromptInitially == GrokInit => PromptInv
BY DEF GrokInit, PromptInv, Launching

\* GrokAdapter: a run completes only when its prompt is off the disk, whichever of the
\* stop, the forced stop, the wait and the end of the session removed it.
THEOREM PromptIsRemoved == GrokSpec => []CompletedRunLeavesNoPrompt
<1>1. PromptInv => CompletedRunLeavesNoPrompt
  BY DEF PromptInv, CompletedRunLeavesNoPrompt
<1> QED BY <1>1, PromptInitially, PromptStep, PTL DEF GrokSpec
-----------------------------------------------------------------------------
(* The calls of a task (AgentLaunch).  What a run has spent follows its phase,   *)
(* and the calls that count never exceed the budget.                             *)

CallRows == [phase : {"idle", "prepared", "reserved", "authorized", "started", "running", "done",
                      "refused", "lost"},
             evidence : {"none", "valid", "expired"}, ready : {"none", "valid", "consumed"},
             call : {"none", "reserved", "released"} \cup Spent,
             auth : {"none", "issued", "consumed"}, proc : {"none", "alive", "gone", "unproven"},
             used : Nat, open : BOOLEAN, stop : {"none", "intent", "completed", "failed"}]
Budgets == [exhausted : BOOLEAN, failClosed : BOOLEAN, maxCalls : CallLimits]
Counts(run) == run.call \in {"reserved"} \cup Spent
Active == {r \in LaunchRuns : Counts(al_run[r])}

\* The call goes with the phase.
Accounted(run) ==
    /\ run.phase \in {"idle", "prepared"} => run.call = "none"
    /\ run.phase = "reserved" => run.call = "reserved"
    /\ run.phase \in {"authorized", "started", "running"} => run.call = "launched"
    /\ run.proc # "none" => run.call \in Spent

CallsInv ==
    /\ al_run \in [LaunchRuns -> CallRows]
    /\ al_task \in Budgets
    /\ \A r \in LaunchRuns : Accounted(al_run[r])
    /\ Cardinality(Active) =< al_task.maxCalls

\* The rows after a step, when no other call counts than before.
KeepsAccount ==
    /\ al_run' \in [LaunchRuns -> CallRows]
    /\ \A r \in LaunchRuns : Accounted(al_run'[r])
    /\ \A r \in LaunchRuns : Counts(al_run'[r]) => Counts(al_run[r])

\* A row that is edited: the others stay.
LEMMA RowKept ==
    ASSUME CallsInv, NEW r \in LaunchRuns, NEW row \in CallRows,
           al_run' = [al_run EXCEPT ![r] = row],
           Accounted(row), Counts(row) => Counts(al_run[r])
    PROVE  KeepsAccount
<1>1. al_run' \in [LaunchRuns -> CallRows]
  BY DEF CallsInv
<1>2. al_run'[r] = row /\ \A q \in LaunchRuns : q # r => al_run'[q] = al_run[q]
  BY DEF CallsInv
<1> QED BY <1>1, <1>2 DEF CallsInv, KeepsAccount

LEMMA AccountKept ==
    ASSUME CallsInv, KeepsAccount, al_task' \in Budgets, al_task'.maxCalls = al_task.maxCalls
    PROVE  CallsInv'
<1>1. Active' \subseteq Active /\ IsFiniteSet(Active)
  <2>1. Active' \subseteq Active
    BY DEF KeepsAccount, Active
  <2>2. IsFiniteSet(Active)
    BY LaunchAssumption, FS_Subset DEF Active
  <2> QED BY <2>1, <2>2
<1>2. Cardinality(Active') =< Cardinality(Active) /\ Cardinality(Active) \in Nat
      /\ Cardinality(Active') \in Nat
  BY <1>1, FS_Subset, FS_CardinalityType
<1>3. al_task.maxCalls \in Nat
  BY LaunchAssumption DEF CallsInv, Budgets
<1> QED BY <1>2, <1>3 DEF CallsInv, KeepsAccount

LEMMA CallsStep == CallsInv /\ [LaunchNext]_alVars => CallsInv'
<1> SUFFICES ASSUME CallsInv, [LaunchNext]_alVars PROVE CallsInv'
  OBVIOUS
<1> USE DEF Accounted, Counts, Spent
<1>0. /\ al_run \in [LaunchRuns -> CallRows] /\ al_task \in Budgets
      /\ \A r \in LaunchRuns : al_run[r] \in CallRows /\ Accounted(al_run[r])
  BY DEF CallsInv
<1>1. ASSUME NEW r \in LaunchRuns, NEW kind \in {"grok", "other"}, Prepare(r, kind)
      PROVE  CallsInv'
  <2>1. KeepsAccount
    BY <1>0, <1>1 DEF Prepare, PutEvidence, KeepsAccount, CallRows
  <2> QED BY <1>0, <1>1, <2>1, AccountKept DEF Prepare
<1>2. ASSUME NEW r \in LaunchRuns, PrepareRefused(r) \/ ReserveRefused(r) PROVE CallsInv'
  <2>1. KeepsAccount
    BY <1>0, <1>2 DEF PrepareRefused, ReserveRefused, Refuse, RunEnded, At, KeepsAccount, CallRows
  <2> QED BY <1>0, <1>2, <2>1, AccountKept DEF PrepareRefused, ReserveRefused, Refuse
<1>3. ASSUME NEW r \in LaunchRuns, ReserveCall(r) PROVE CallsInv'
  <2>1. /\ al_run' \in [LaunchRuns -> CallRows] /\ Counts(al_run'[r]) /\ ~Counts(al_run[r])
        /\ \A q \in LaunchRuns : Accounted(al_run'[q])
        /\ \A q \in LaunchRuns : q # r => al_run'[q] = al_run[q]
    BY <1>0, <1>3 DEF ReserveCall, At, CallRows
  <2>2. Active' = Active \cup {r} /\ r \notin Active
    BY <2>1 DEF Active
  <2>3. IsFiniteSet(Active) /\ Cardinality(Active) \in Nat
    BY LaunchAssumption, FS_Subset, FS_CardinalityType DEF Active
  <2>4. Cardinality(Active') = Cardinality(Active) + 1
    BY <2>2, <2>3, FS_AddElement
  <2>5. Active = {q \in LaunchRuns : al_run[q].call \in {"reserved"} \cup Spent}
    BY DEF Active
  <2>6. Cardinality(Active) < al_task.maxCalls /\ al_task' = al_task /\ al_task.maxCalls \in Nat
    BY <1>0, <1>3, <2>5, LaunchAssumption DEF ReserveCall, ActiveCalls, Budgets
  <2> QED BY <1>0, <2>1, <2>3, <2>4, <2>6 DEF CallsInv
<1>4. ASSUME NEW r \in LaunchRuns, EvidenceExpires(r) \/ AuthorizeForLaunch(r) \/ StartProcess(r)
                                    \/ FollowProcess(r)
      PROVE  CallsInv'
  <2>1. KeepsAccount
    BY <1>0, <1>4 DEF EvidenceExpires, AuthorizeForLaunch, StartProcess, FollowProcess, At,
                      KeepsAccount, CallRows
  <2> QED BY <1>0, <1>4, <2>1, AccountKept
          DEF EvidenceExpires, AuthorizeForLaunch, StartProcess, FollowProcess
<1>5. ASSUME NEW r \in LaunchRuns, AuthorizeRefused(r) \/ StartProcessFails(r) PROVE CallsInv'
  <2>1. KeepsAccount
    BY <1>0, <1>5 DEF AuthorizeRefused, StartProcessFails, RunEnded, Released, At, KeepsAccount,
                      CallRows
  <2> QED BY <1>0, <1>5, <2>1, AccountKept DEF AuthorizeRefused, StartProcessFails
<1>6. ASSUME NEW r \in LaunchRuns, NEW failed \in BOOLEAN, RunEnds(r, failed) PROVE CallsInv'
  <2> DEFINE call == IF failed /\ Writable THEN "consumed" ELSE al_run[r].call
             ended == IntervalClosed(RunEnded(al_run, r, "done"), r)
             row == [ended[r] EXCEPT !.call = call]
  <2>3. al_run[r] \in CallRows /\ al_run[r].call \in Spent /\ call \in Spent
    BY <1>0, <1>6 DEF RunEnds, At
  <2>6. al_run' = [ended EXCEPT ![r].call = call]
    <3>1. ended[r].call = al_run[r].call
      BY <1>0 DEF RunEnded, IntervalClosed
    <3>2. al_run' = [ended EXCEPT ![r].call = IF failed /\ Writable THEN "consumed" ELSE @]
      BY <1>6 DEF RunEnds
    <3> HIDE DEF ended
    <3> QED BY <3>1, <3>2
  <2> HIDE DEF call
  <2>7. PICK base \in CallRows : base.phase = "done" /\ ended = [al_run EXCEPT ![r] = base]
    <3> DEFINE over == [al_run[r] EXCEPT !.phase = "done", !.evidence = "none",
                                         !.ready = "none", !.auth = "none", !.open = FALSE]
    <3>1. over \in CallRows /\ over.phase = "done"
      BY <2>3, ZenonT(60) DEF CallRows
    <3>2. ended = [al_run EXCEPT ![r] = over]
      BY <1>0 DEF RunEnded, IntervalClosed
    <3> HIDE DEF ended, over
    <3> QED BY <3>1, <3>2
  <2> HIDE DEF ended
  <2>8. ended[r] = base /\ row = [base EXCEPT !.call = call]
    BY <1>0, <2>7
  <2>4. row \in CallRows /\ row.call \in Spent /\ row.phase = "done"
    BY <2>3, <2>7, <2>8 DEF CallRows
  <2>5. al_run' = [al_run EXCEPT ![r] = row]
    BY <1>0, <2>6, <2>7, <2>8
  <2> HIDE DEF row
  <2>1. KeepsAccount
    BY <2>3, <2>4, <2>5, RowKept
  <2>2. al_task' \in Budgets /\ al_task'.maxCalls = al_task.maxCalls
    BY <1>0, <1>6 DEF RunEnds, Budgets
  <2> QED BY <2>1, <2>2, AccountKept
<1>7. ASSUME NEW r \in LaunchRuns, LosesRun(r) PROVE CallsInv'
  <2>1. KeepsAccount
    BY <1>0, <1>7 DEF LosesRun, RunEnded, At, KeepsAccount, CallRows
  <2>2. al_task' \in Budgets /\ al_task'.maxCalls = al_task.maxCalls
    BY <1>0, <1>7 DEF LosesRun, Budgets
  <2> QED BY <2>1, <2>2, AccountKept
<1>8. ASSUME NEW r \in LaunchRuns, NEW forceFailed \in BOOLEAN, Settles(r, forceFailed)
      PROVE  CallsInv'
  <2> DEFINE proc == IF forceFailed THEN "unproven" ELSE "gone"
             verdict == StopVerdict(r, forceFailed)
             open == al_run[r].open /\ (r \notin al_mem.stopping \/ forceFailed)
             row == [al_run[r] EXCEPT !.proc = proc, !.stop = verdict, !.open = open]
  <2>2. al_run' = [al_run EXCEPT ![r] = row]
    BY <1>0, <1>8 DEF Settles
  <2>3. /\ al_run[r] \in CallRows /\ Accounted(al_run[r]) /\ al_run[r].call \in Spent
        /\ verdict \in {"none", "intent", "completed", "failed"} /\ open \in BOOLEAN
        /\ proc \in {"unproven", "gone"}
    BY <1>0, <1>8 DEF Settles, StopVerdict, CallRows
  <2> HIDE DEF proc, verdict, open
  <2>4. row \in CallRows /\ row.call = al_run[r].call /\ row.phase = al_run[r].phase
    <3>1. ASSUME NEW b \in BOOLEAN, row = [al_run[r] EXCEPT !.proc = proc, !.stop = verdict, !.open = b]
          PROVE  row \in CallRows /\ row.call = al_run[r].call /\ row.phase = al_run[r].phase
      <4> HIDE DEF row
      <4> QED BY <2>3, <3>1, ZenonT(60) DEF CallRows
    <3> QED BY <2>3, <3>1
  <2> HIDE DEF row
  <2>1. KeepsAccount
    BY <2>2, <2>3, <2>4, RowKept
  <2> QED BY <1>0, <1>8, <2>1, AccountKept DEF Settles
<1>9. CASE Tick
  <2>1. KeepsAccount
    BY <1>0, <1>9 DEF Tick, KeepsAccount, CallRows
  <2> QED BY <1>0, <1>9, <2>1, AccountKept DEF Tick
<1>10. ASSUME al_run' = al_run, al_task' = al_task PROVE CallsInv'
  <2>1. KeepsAccount
    BY <1>0, <1>10 DEF KeepsAccount
  <2> QED BY <1>0, <1>10, <2>1, AccountKept
<1>11. ASSUME NEW t \in al_mem.timers, TimerFires(t) \/ ForceFires(t) PROVE CallsInv'
  <2>1. CASE UNCHANGED <<al_run, al_task>>
    BY <1>10, <2>1
  <2>2. CASE ~UNCHANGED <<al_run, al_task>>
    <3>1. /\ al_task' = [al_task EXCEPT !.exhausted = TRUE]
          /\ al_run' = [al_run EXCEPT ![t[1]].stop = "intent"]
      BY <1>11, <2>2, Zenon DEF TimerFires, ForceFires, BeginStop
    <3>2. KeepsAccount
      <4>1. CASE t[1] \in LaunchRuns
        <5> DEFINE row == [al_run[t[1]] EXCEPT !.stop = "intent"]
        <5>1. row \in CallRows /\ Accounted(row) /\ (Counts(row) => Counts(al_run[t[1]]))
          BY <1>0, <4>1 DEF CallRows
        <5>2. al_run' = [al_run EXCEPT ![t[1]] = row]
          BY <1>0, <3>1, <4>1
        <5> HIDE DEF row
        <5> QED BY <4>1, <5>1, <5>2, RowKept
      <4>2. CASE t[1] \notin LaunchRuns
        BY <1>0, <3>1, <4>2 DEF KeepsAccount
      <4> QED BY <4>1, <4>2
    <3>3. al_task' \in Budgets /\ al_task'.maxCalls = al_task.maxCalls
      BY <1>0, <3>1 DEF Budgets
    <3> QED BY <3>2, <3>3, AccountKept
  <2> QED BY <2>1, <2>2
<1>12. CASE AppCrashes
  <2>2. ASSUME NEW r \in LaunchRuns
        PROVE  /\ al_run'[r] \in CallRows /\ Accounted(al_run'[r])
               /\ Counts(al_run'[r]) => Counts(al_run[r])
    <3> DEFINE proc == IF al_run[r].proc = "alive" THEN "unproven" ELSE al_run[r].proc
               lost == RunEnded(al_run, r, "lost")[r]
    <3>1. CASE r = CurrentRun
      <4>1. /\ lost \in CallRows /\ lost.phase = "lost" /\ lost.call = al_run[r].call
            /\ lost.proc = al_run[r].proc
        <5>1. al_run[r] \in CallRows
          BY <1>0
        <5>2. lost = [al_run[r] EXCEPT !.phase = "lost", !.evidence = "none",
                                       !.ready = "none", !.auth = "none"]
          BY <1>0, ZenonT(30) DEF RunEnded
        <5> HIDE DEF lost
        <5> QED BY <5>1, <5>2, ZenonT(60) DEF CallRows
      <4>2. al_run'[r] = [lost EXCEPT !.proc = IF @ = "alive" THEN "unproven" ELSE @]
        BY <1>12, <3>1 DEF AppCrashes
      <4> HIDE DEF lost
      <4>3. /\ al_run'[r] \in CallRows /\ al_run'[r].phase = "lost"
            /\ al_run'[r].call = al_run[r].call
            /\ al_run'[r].proc # "none" => al_run[r].proc # "none"
        <5>1. CASE lost.proc = "alive"
          BY <4>1, <4>2, <5>1 DEF CallRows
        <5>2. CASE lost.proc # "alive"
          BY <4>1, <4>2, <5>2 DEF CallRows
        <5> QED BY <5>1, <5>2
      <4> QED BY <1>0, <4>3
    <3>2. CASE r # CurrentRun
      <4>1. al_run'[r] = [al_run[r] EXCEPT !.proc = proc]
        BY <1>0, <1>12, <3>2 DEF AppCrashes
      <4> QED BY <1>0, <4>1 DEF CallRows
    <3> QED BY <3>1, <3>2
  <2>3. al_run' \in [LaunchRuns -> CallRows]
    <3>1. DOMAIN al_run' = LaunchRuns /\ al_run' = [r \in LaunchRuns |-> al_run'[r]]
      BY <1>12 DEF AppCrashes
    <3> QED BY <2>2, <3>1
  <2>1. KeepsAccount
    BY <2>2, <2>3 DEF KeepsAccount
  <2> QED BY <1>0, <1>12, <2>1, AccountKept DEF AppCrashes
<1>13. CASE Recover
  <2>1. KeepsAccount
    BY <1>0, <1>13 DEF Recover, KeepsAccount
  <2>2. al_task' \in Budgets /\ al_task'.maxCalls = al_task.maxCalls
    BY <1>0, <1>13 DEF Recover, Budgets
  <2> QED BY <2>1, <2>2, AccountKept
<1>14. CASE ResumePendingStop
  BY <1>10, <1>14 DEF ResumePendingStop
<1>15. CASE UNCHANGED alVars
  BY <1>10, <1>15 DEF alVars
<1> QED BY <1>1, <1>2, <1>3, <1>4, <1>5, <1>6, <1>7, <1>8, <1>9, <1>11, <1>12, <1>13, <1>14, <1>15
        DEF LaunchNext, RunStep

LEMMA CallsInit == LaunchInit => CallsInv
<1> SUFFICES ASSUME LaunchInit PROVE CallsInv
  OBVIOUS
<1>1. al_run \in [LaunchRuns -> CallRows] /\ al_task \in Budgets /\ Active = {}
  BY DEF LaunchInit, CallRows, Budgets, Active, Counts, Spent
<1>2. al_task.maxCalls \in Nat
  BY <1>1, LaunchAssumption DEF Budgets
<1>3. \A r \in LaunchRuns : Accounted(al_run[r])
  BY DEF LaunchInit, Accounted
<1> QED BY <1>1, <1>2, <1>3, FS_EmptySet DEF CallsInv

\* WorkerStartGateVerifier, BudgetController: no agent process without a call that
\* stays spent, and never more of them than the budget allows, for every budget,
\* number of runs, failed launch, lost run and crash.
THEOREM AgentsArePaid == LaunchSpec => []EveryAgentIsPaid
<1>1. LaunchInit => CallsInv
  BY CallsInit
<1>2. CallsInv => EveryAgentIsPaid
  <2> SUFFICES ASSUME CallsInv PROVE EveryAgentIsPaid
    OBVIOUS
  <2> DEFINE started == {r \in LaunchRuns : al_run[r].proc # "none"}
  <2>1. \A r \in LaunchRuns : al_run[r].proc # "none" => al_run[r].call \in Spent
    BY DEF CallsInv, Accounted
  <2>2. started \subseteq Active /\ IsFiniteSet(Active)
    <3>1. started \subseteq Active
      BY <2>1 DEF Active, Counts
    <3> QED BY <3>1, LaunchAssumption, FS_Subset DEF Active
  <2>3. Cardinality(started) =< Cardinality(Active) /\ Cardinality(Active) \in Nat
        /\ Cardinality(started) \in Nat
    BY <2>2, FS_Subset, FS_CardinalityType
  <2>4. al_task.maxCalls \in Nat /\ Cardinality(Active) =< al_task.maxCalls
    BY LaunchAssumption DEF CallsInv, Budgets
  <2> QED BY <2>1, <2>3, <2>4 DEF EveryAgentIsPaid
<1> QED BY <1>1, <1>2, CallsStep, PTL DEF LaunchSpec
-----------------------------------------------------------------------------
(* The time of a task (AgentLaunch): the sum over its runs.                      *)

\* One step of a sum over a set of runs, of the sums of smaller sets.
AddOne(F, sums, s) == IF s = {} THEN 0 ELSE LET r == CHOOSE x \in s : TRUE
                                            IN  F[r] + sums[s \ {r}]
IsSum(F, sums) == sums = [s \in SUBSET LaunchRuns |-> AddOne(F, sums, s)]

\* Induction over the sets of runs: one that fails has a smaller one that fails.
LEMMA SmallestSet ==
    ASSUME NEW Good, \A s \in SUBSET LaunchRuns :
               (\A t \in SUBSET s : t # s => t \in Good) => s \in Good
    PROVE  \A s \in SUBSET LaunchRuns : s \in Good
<1> DEFINE Bad == {s \in SUBSET LaunchRuns : s \notin Good}
<1> SUFFICES ASSUME Bad # {} PROVE FALSE
  OBVIOUS
<1>1. Bad \subseteq FiniteSubsetsOf(LaunchRuns)
  BY LaunchAssumption, FS_Subset DEF FiniteSubsetsOf
<1>2. PICK s \in Bad : \A t \in Bad : <<t, s>> \notin StrictSubsetOrdering(LaunchRuns)
  <2>1. IsWellFoundedOn(StrictSubsetOrdering(LaunchRuns), FiniteSubsetsOf(LaunchRuns))
    BY FS_StrictSubsetOrderingWellFounded
  <2> HIDE DEF Bad
  <2> QED BY <1>1, <2>1, WFMin
<1>3. \A t \in SUBSET s : t # s => t \in Good
  BY <1>2 DEF StrictSubsetOrdering
<1> QED BY <1>2, <1>3

\* Sums that are right for the sets of at most n runs.
SumsUpTo(F, n) ==
    \E sums \in [SUBSET LaunchRuns -> Nat] : \A s \in SUBSET LaunchRuns :
        Cardinality(s) <= n => sums[s] = AddOne(F, sums, s)

LEMMA LessOne ==
    ASSUME NEW s \in SUBSET LaunchRuns, s # {}
    PROVE  LET r == CHOOSE x \in s : TRUE
           IN  /\ r \in s /\ r \in LaunchRuns /\ s \ {r} \in SUBSET s /\ s \ {r} # s
               /\ Cardinality(s) \in Nat /\ Cardinality(s) > 0
               /\ Cardinality(s \ {r}) = Cardinality(s) - 1
<1>1. IsFiniteSet(s) /\ Cardinality(s) \in Nat /\ Cardinality(s) # 0
  BY LaunchAssumption, FS_Subset, FS_CardinalityType, FS_EmptySet
<1>2. \A r \in s : Cardinality(s \ {r}) = Cardinality(s) - 1
  BY <1>1, FS_RemoveElement
<1>3. (CHOOSE x \in s : TRUE) \in s
  OBVIOUS
<1>4. \A r \in s : r \in LaunchRuns /\ s \ {r} \in SUBSET s /\ s \ {r} # s
  OBVIOUS
<1>5. Cardinality(s) > 0
  BY <1>1
<1> QED BY <1>1, <1>2, <1>3, <1>4, <1>5, Zenon

LEMMA OneMore ==
    ASSUME NEW F \in [LaunchRuns -> Nat], NEW n \in Nat, SumsUpTo(F, n)
    PROVE  SumsUpTo(F, n + 1)
<1>1. PICK g \in [SUBSET LaunchRuns -> Nat] : \A s \in SUBSET LaunchRuns :
          Cardinality(s) <= n => g[s] = AddOne(F, g, s)
  BY DEF SumsUpTo
<1> DEFINE h == [s \in SUBSET LaunchRuns |-> IF Cardinality(s) <= n THEN g[s] ELSE AddOne(F, g, s)]
<1>2. \A s \in SUBSET LaunchRuns : AddOne(F, g, s) \in Nat
  BY LessOne DEF AddOne
<1>3. h \in [SUBSET LaunchRuns -> Nat]
  BY <1>2
<1>4. \A s \in SUBSET LaunchRuns : Cardinality(s) <= n + 1 => AddOne(F, h, s) = AddOne(F, g, s)
  <2> SUFFICES ASSUME NEW s \in SUBSET LaunchRuns, Cardinality(s) <= n + 1, s # {}
               PROVE  AddOne(F, h, s) = AddOne(F, g, s)
    BY DEF AddOne
  <2> DEFINE r == CHOOSE x \in s : TRUE
  <2>1. s \ {r} \in SUBSET LaunchRuns /\ Cardinality(s \ {r}) <= n
    BY LessOne
  <2>2. h[s \ {r}] = g[s \ {r}]
    BY <2>1
  <2> HIDE DEF h
  <2> QED BY <2>2 DEF AddOne
<1>5. \A s \in SUBSET LaunchRuns : Cardinality(s) <= n + 1 => h[s] = AddOne(F, g, s)
  BY <1>1
<1> HIDE DEF h
<1> QED BY <1>3, <1>4, <1>5 DEF SumsUpTo

\* The sums exist.
LEMMA SumsExist ==
    ASSUME NEW F \in [LaunchRuns -> Nat]
    PROVE  \E sums \in [SUBSET LaunchRuns -> Nat] : IsSum(F, sums)
<1> DEFINE N == Cardinality(LaunchRuns)
           Good == {s \in SUBSET LaunchRuns : \A n \in 0 .. N : s = 1 .. n => SumsUpTo(F, n)}
<1>1. N \in Nat /\ LaunchRuns = 1 .. N
  BY LaunchAssumption, FS_CardinalityType
<1>2. SumsUpTo(F, 0)
  <2> DEFINE zero == [s \in SUBSET LaunchRuns |-> 0]
  <2>1. zero \in [SUBSET LaunchRuns -> Nat]
    OBVIOUS
  <2>2. \A s \in SUBSET LaunchRuns : Cardinality(s) <= 0 => zero[s] = AddOne(F, zero, s)
    <3>1. \A s \in SUBSET LaunchRuns : Cardinality(s) <= 0 => s = {}
      <4>1. \A s \in SUBSET LaunchRuns : s # {} => Cardinality(s) > 0 /\ Cardinality(s) \in Nat
        BY LessOne
      <4> QED BY <4>1
    <3> QED BY <3>1 DEF AddOne
  <2> HIDE DEF zero
  <2> QED BY <2>1, <2>2 DEF SumsUpTo
<1>3. ASSUME NEW s \in SUBSET LaunchRuns, \A t \in SUBSET s : t # s => t \in Good
      PROVE  s \in Good
  <2> SUFFICES ASSUME NEW n \in 0 .. N, s = 1 .. n PROVE SumsUpTo(F, n)
    OBVIOUS
  <2>1. CASE n = 0
    BY <1>2, <2>1
  <2>2. CASE n # 0
    <3>1. n - 1 \in 0 .. N /\ 1 .. (n - 1) \in SUBSET s /\ 1 .. (n - 1) # s /\ n - 1 \in Nat
      BY <1>1, <2>2
    <3>2. SumsUpTo(F, n - 1)
      BY <1>3, <3>1
    <3> HIDE DEF N
    <3>3. SumsUpTo(F, (n - 1) + 1)
      BY <3>1, <3>2, OneMore
    <3>4. (n - 1) + 1 = n
      BY <1>1
    <3> QED BY <3>3, <3>4
  <2> QED BY <2>1, <2>2
<1>4. LaunchRuns \in Good
  <2> HIDE DEF Good
  <2> QED BY <1>3, SmallestSet
<1>5. SumsUpTo(F, N)
  BY <1>1, <1>4
<1>6. PICK sums \in [SUBSET LaunchRuns -> Nat] : \A s \in SUBSET LaunchRuns :
          Cardinality(s) <= N => sums[s] = AddOne(F, sums, s)
  BY <1>5 DEF SumsUpTo
<1>7. \A s \in SUBSET LaunchRuns : Cardinality(s) <= N
  BY LaunchAssumption, FS_Subset
<1> HIDE DEF N
<1>8. \A s \in SUBSET LaunchRuns : sums[s] = AddOne(F, sums, s)
  BY <1>6, <1>7
<1> QED BY <1>6, <1>8 DEF IsSum

GrowsAt(r, F, G) == \A q \in LaunchRuns : G[q] = F[q] + (IF q = r THEN 1 ELSE 0)

\* When one function is one more than another at a run, so are its sums.
LEMMA SumsGrow ==
    ASSUME NEW F \in [LaunchRuns -> Nat], NEW f, IsSum(F, f),
           NEW G \in [LaunchRuns -> Nat], NEW g, IsSum(G, g),
           NEW r, GrowsAt(r, F, G)
    PROVE  \A s \in SUBSET LaunchRuns : f[s] \in Nat /\ g[s] = f[s] + (IF r \in s THEN 1 ELSE 0)
<1> DEFINE Good == {s \in SUBSET LaunchRuns :
                       f[s] \in Nat /\ g[s] = f[s] + (IF r \in s THEN 1 ELSE 0)}
<1>1. \A s \in SUBSET LaunchRuns : f[s] = AddOne(F, f, s) /\ g[s] = AddOne(G, g, s)
  BY DEF IsSum
<1>2. ASSUME NEW s \in SUBSET LaunchRuns, \A t \in SUBSET s : t # s => t \in Good
      PROVE  s \in Good
  <2>1. CASE s = {}
    BY <1>1, <2>1 DEF AddOne
  <2>2. CASE s # {}
    <3> DEFINE q == CHOOSE x \in s : TRUE
    <3>1. q \in s /\ q \in LaunchRuns /\ s \ {q} \in Good
      BY <1>2, <2>2, LessOne
    <3>2. f[s] = F[q] + f[s \ {q}] /\ g[s] = G[q] + g[s \ {q}]
      BY <1>1, <2>2 DEF AddOne
    <3> HIDE DEF q
    <3>3. /\ F[q] \in Nat /\ G[q] = F[q] + (IF q = r THEN 1 ELSE 0) /\ f[s \ {q}] \in Nat
          /\ g[s \ {q}] = f[s \ {q}] + (IF r \in s \ {q} THEN 1 ELSE 0)
      BY <3>1 DEF GrowsAt
    <3>4. CASE q = r
      BY <3>1, <3>2, <3>3, <3>4
    <3>5. CASE q # r
      <4>1. r \in s \ {q} <=> r \in s
        BY <3>5
      <4> QED BY <3>2, <3>3, <3>5, <4>1
    <3> QED BY <3>4, <3>5
  <2> QED BY <2>1, <2>2
<1> HIDE DEF Good
<1>3. \A s \in SUBSET LaunchRuns : s \in Good
  BY <1>2, SmallestSet
<1> QED BY <1>3 DEF Good

LEMMA SumIsUnique ==
    ASSUME NEW F \in [LaunchRuns -> Nat], NEW f, IsSum(F, f), NEW g, IsSum(F, g)
    PROVE  f = g
<1>1. PICK r : r \notin LaunchRuns
  <2>1. 0 \notin LaunchRuns
    BY LaunchAssumption, FS_CardinalityType
  <2> QED BY <2>1
<1>2. GrowsAt(r, F, F)
  BY <1>1 DEF GrowsAt
<1>3. \A s \in SUBSET LaunchRuns : f[s] \in Nat /\ g[s] = f[s] + (IF r \in s THEN 1 ELSE 0)
  BY <1>2, SumsGrow
<1>4. \A s \in SUBSET LaunchRuns : f[s] = g[s]
  BY <1>1, <1>3
<1> QED BY <1>4 DEF IsSum

Used(run) == [r \in LaunchRuns |-> run[r].used]
Total(run) == MapThenSumSet(LAMBDA r : run[r].used, LaunchRuns)

LEMMA TotalIsSum ==
    ASSUME NEW run, Used(run) \in [LaunchRuns -> Nat]
    PROVE  Total(run) \in Nat /\ \E sums \in [SUBSET LaunchRuns -> Nat] :
                                    IsSum(Used(run), sums) /\ Total(run) = sums[LaunchRuns]
<1> DEFINE Step(g, s) == IF s = {} THEN 0 ELSE run[CHOOSE x \in s : TRUE].used
                                               + g[s \ {CHOOSE x \in s : TRUE}]
           total == CHOOSE g : g = [s \in SUBSET LaunchRuns |-> Step(g, s)]
<1>1. Total(run) = total[LaunchRuns]
  BY DEF Total, MapThenSumSet, MapThenFoldSet
<1>2. ASSUME NEW g PROVE IsSum(Used(run), g) <=> g = [s \in SUBSET LaunchRuns |-> Step(g, s)]
  <2>1. \A s \in SUBSET LaunchRuns : AddOne(Used(run), g, s) = Step(g, s)
    BY LessOne DEF AddOne, Used
  <2> HIDE DEF Step
  <2> QED BY <2>1 DEF IsSum
<1>3. \E g : g = [s \in SUBSET LaunchRuns |-> Step(g, s)]
  <2>1. \E g : IsSum(Used(run), g)
    BY SumsExist
  <2> HIDE DEF Step
  <2> QED BY <1>2, <2>1
<1>4. IsSum(Used(run), total)
  <2> HIDE DEF Step
  <2>1. total = [s \in SUBSET LaunchRuns |-> Step(total, s)]
    BY <1>3
  <2> HIDE DEF total
  <2> QED BY <1>2, <2>1
<1>5. PICK sums \in [SUBSET LaunchRuns -> Nat] : IsSum(Used(run), sums)
  BY SumsExist
<1>6. total = sums
  <2> HIDE DEF total
  <2> QED BY <1>4, <1>5, SumIsUnique
<1> QED BY <1>1, <1>5, <1>6

LEMMA TotalTyped ==
    ASSUME al_run \in [LaunchRuns -> CallRows]
    PROVE  TotalUsed \in Nat
<1>1. Used(al_run) \in [LaunchRuns -> Nat] /\ TotalUsed = Total(al_run)
  BY DEF Used, CallRows, TotalUsed, Total
<1> QED BY <1>1, TotalIsSum

\* The total grows with the time of one run, and with nothing else.
LEMMA TotalGrows ==
    ASSUME al_run \in [LaunchRuns -> CallRows], al_run' \in [LaunchRuns -> CallRows], NEW r,
           \A q \in LaunchRuns : al_run'[q].used = al_run[q].used + (IF q = r THEN 1 ELSE 0)
    PROVE  TotalUsed' = TotalUsed + (IF r \in LaunchRuns THEN 1 ELSE 0)
<1>1. Used(al_run) \in [LaunchRuns -> Nat] /\ Used(al_run') \in [LaunchRuns -> Nat]
  BY DEF Used, CallRows
<1>2. TotalUsed = Total(al_run) /\ TotalUsed' = Total(al_run')
  BY DEF TotalUsed, Total, MapThenSumSet, MapThenFoldSet
<1>3. PICK f \in [SUBSET LaunchRuns -> Nat] :
          IsSum(Used(al_run), f) /\ Total(al_run) = f[LaunchRuns]
  BY <1>1, TotalIsSum
<1>4. PICK g \in [SUBSET LaunchRuns -> Nat] :
          IsSum(Used(al_run'), g) /\ Total(al_run') = g[LaunchRuns]
  BY <1>1, TotalIsSum
<1>5. GrowsAt(r, Used(al_run), Used(al_run'))
  BY DEF Used, GrowsAt
<1>6. g[LaunchRuns] = f[LaunchRuns] + (IF r \in LaunchRuns THEN 1 ELSE 0)
  BY <1>1, <1>3, <1>4, <1>5, SumsGrow
<1> QED BY <1>2, <1>3, <1>4, <1>6

LEMMA TotalKept ==
    ASSUME al_run \in [LaunchRuns -> CallRows], al_run' \in [LaunchRuns -> CallRows],
           \A q \in LaunchRuns : al_run'[q].used = al_run[q].used
    PROVE  TotalUsed' = TotalUsed
<1>1. 0 \notin LaunchRuns
  BY LaunchAssumption, FS_CardinalityType
<1>2. \A q \in LaunchRuns : al_run'[q].used = al_run[q].used + (IF q = 0 THEN 1 ELSE 0)
  BY <1>1 DEF CallRows
<1>3. TotalUsed' = TotalUsed + (IF 0 \in LaunchRuns THEN 1 ELSE 0)
  BY <1>2, TotalGrows
<1>4. TotalUsed \in Nat
  BY TotalTyped
<1> QED BY <1>1, <1>3, <1>4
-----------------------------------------------------------------------------
(* The watches of a task (AgentLaunch).  While a run is counted and not asked to  *)
(* stop, its watches show exactly the time that is left to it.                   *)

Watches == LaunchRuns \X {"attempt", "total", "force"} \X Nat
Memories == [cur : {0} \cup LaunchRuns, stopping : SUBSET LaunchRuns,
             finalized : SUBSET LaunchRuns, timers : SUBSET Watches,
             followed : SUBSET LaunchRuns, ended : SUBSET LaunchRuns]
InLaunch == {"prepared", "reserved", "authorized", "started", "running"}

\* Nothing fails closed.  A run has its phase to itself, and its time is counted only
\* while it runs or is lost; what is stopped or finalised has a stop on record.
PhaseOK(r) ==
    /\ al_run[r].phase \in InLaunch <=> r = CurrentRun
    /\ al_run[r].open => al_run[r].phase \in {"running", "lost"} /\ al_run[r].call \in Spent
    /\ al_run[r].phase \in InLaunch \ {"running"} => al_run[r].used = 0
    /\ al_run[r].phase = "idle" => al_run[r].used = 0
    /\ r \in al_mem.stopping \cup al_mem.finalized => al_run[r].stop # "none"

\* A process that is counted and that nobody has asked to stop.
Unstopped(r) == /\ r \in al_mem.followed \ al_mem.ended
                /\ al_run[r].open /\ al_run[r].stop = "none"

\* Its watches: the time that is left on them is the time that is left to it.
Watched(r) ==
    Unstopped(r) =>
    /\ LostRuns \subseteq {r} =>
           \E t \in al_mem.timers : /\ t[1] = r /\ t[2] = "attempt"
                                    /\ al_run[r].used + t[3] = AttemptLimit
    /\ LostRuns = {} =>
           \E t \in al_mem.timers : /\ t[1] = r /\ t[2] = "total"
                                    /\ TotalUsed + t[3] = TotalLimit

\* Until a run is lost, a task that launches has time left, and has not been exhausted
\* since its authorisation.
Affordable(r) ==
    LostRuns = {} =>
    /\ al_run[r].phase \in {"reserved", "authorized", "started"} => TotalUsed < TotalLimit
    /\ al_run[r].phase \in {"authorized", "started"} => ~al_task.exhausted

WatchInv == /\ ~al_task.failClosed
            /\ al_mem \in Memories
            /\ \A r \in LaunchRuns : PhaseOK(r) /\ Watched(r) /\ Affordable(r)

\* A step of run r that leaves the watches and the others alone.
LEMMA OneRunSteps ==
    ASSUME CallsInv, CallsInv', WatchInv, NEW r \in LaunchRuns,
           \A q \in LaunchRuns : q # r => al_run'[q] = al_run[q],
           \A q \in LaunchRuns : q # r => (q = al_mem'.cur <=> q = al_mem.cur),
           al_run'[r].used = al_run[r].used,
           al_run[r].phase = "lost" => al_run'[r].phase = "lost",
           al_mem' \in Memories, al_mem'.timers = al_mem.timers,
           al_mem'.stopping \cup al_mem'.finalized \subseteq al_mem.stopping \cup al_mem.finalized,
           al_mem'.followed = al_mem.followed, al_mem.ended \subseteq al_mem'.ended,
           Unstopped(r)' => Unstopped(r), PhaseOK(r)', Affordable(r)',
           al_task'.failClosed = al_task.failClosed,
           al_task'.exhausted = al_task.exhausted \/ al_run[r].phase = "running"
    PROVE  WatchInv'
<1>0. /\ al_run \in [LaunchRuns -> CallRows] /\ al_run' \in [LaunchRuns -> CallRows]
      /\ \A q \in LaunchRuns : al_run'[q].used = al_run[q].used
  BY DEF CallsInv
<1>1. TotalUsed' = TotalUsed
  BY <1>0, TotalKept
<1>2. LostRuns \subseteq LostRuns'
  BY DEF LostRuns
<1>3. ASSUME NEW q \in LaunchRuns, q # r PROVE PhaseOK(q)' /\ Affordable(q)'
  <2>1. PhaseOK(q) /\ Affordable(q) /\ PhaseOK(r) /\ al_run'[q] = al_run[q]
    BY <1>3 DEF WatchInv
  <2>2. PhaseOK(q)'
    BY <1>3, <2>1 DEF PhaseOK, CurrentRun
  <2>3. Affordable(q)'
    BY <1>1, <1>2, <1>3, <2>1 DEF Affordable, PhaseOK, InLaunch
  <2> QED BY <2>2, <2>3
<1>4. ASSUME NEW q \in LaunchRuns PROVE Watched(q)'
  <2>1. Watched(q) /\ (Unstopped(q)' => Unstopped(q))
    BY <1>4 DEF WatchInv, Unstopped
  <2> QED BY <1>0, <1>1, <1>2, <2>1 DEF Watched
<1> QED BY <1>3, <1>4 DEF WatchInv

\* A step of r before its process is followed: to another phase of the launch, or out of it.
Launched(r, phase, cur) ==
    /\ al_mem' \in Memories /\ al_mem'.cur = cur
    /\ al_mem'.timers = al_mem.timers /\ al_mem'.stopping = al_mem.stopping
    /\ al_mem'.finalized = al_mem.finalized /\ al_mem'.followed = al_mem.followed
    /\ al_mem'.ended = al_mem.ended
    /\ \A q \in LaunchRuns : q # r => al_run'[q] = al_run[q]
    /\ al_run'[r].phase = phase
    /\ al_run'[r].used = al_run[r].used /\ al_run'[r].open = al_run[r].open
    /\ al_run'[r].stop = al_run[r].stop /\ al_task' = al_task

LEMMA LaunchMoves ==
    ASSUME CallsInv, CallsInv', WatchInv, NEW r \in LaunchRuns, NEW phase, NEW cur,
           Launched(r, phase, cur), CurrentRun \in {0, r},
           al_run[r].phase \in {"idle"} \cup (InLaunch \ {"running"}),
           \/ cur = r /\ phase \in InLaunch \ {"running"}
           \/ cur = 0 /\ phase = "refused",
           phase \in {"reserved", "authorized", "started"} =>
               /\ TotalUsed < TotalLimit \/ LostRuns # {}
               /\ phase # "reserved" => ~al_task.exhausted \/ LostRuns # {}
    PROVE  WatchInv'
<1>0. /\ al_run \in [LaunchRuns -> CallRows] /\ al_run' \in [LaunchRuns -> CallRows]
      /\ al_run[r] \in CallRows /\ al_mem \in Memories /\ al_task \in Budgets
      /\ PhaseOK(r) /\ Affordable(r) /\ ~al_task.failClosed
  BY DEF CallsInv, WatchInv
<1>1. 0 \notin LaunchRuns
  BY LaunchAssumption, FS_CardinalityType
<1>2. ~al_run[r].open /\ al_run[r].used = 0
  BY <1>0 DEF PhaseOK, InLaunch
<1>3. PhaseOK(r)'
  BY <1>0, <1>1, <1>2 DEF PhaseOK, InLaunch, CurrentRun, Launched
<1>4. Unstopped(r)' => Unstopped(r)
  BY <1>2 DEF Unstopped, Launched
<1>5. \A q \in LaunchRuns : q # r => (q = al_mem'.cur <=> q = al_mem.cur)
  BY <1>1 DEF CurrentRun, Launched
<1>6. Affordable(r)'
  <2>1. TotalUsed' = TotalUsed
    BY <1>0, TotalKept DEF Launched
  <2>2. LostRuns' = {} => LostRuns = {}
    BY DEF LostRuns, InLaunch, Launched
  <2> QED BY <2>1, <2>2 DEF Affordable, Launched
<1>7. /\ \A q \in LaunchRuns : q # r => al_run'[q] = al_run[q]
      /\ al_run'[r].used = al_run[r].used /\ al_task' = al_task
      /\ al_mem' \in Memories /\ al_mem'.timers = al_mem.timers
      /\ al_mem'.stopping = al_mem.stopping /\ al_mem'.finalized = al_mem.finalized
      /\ al_mem'.followed = al_mem.followed /\ al_mem'.ended = al_mem.ended
  BY DEF Launched
<1> QED BY <1>3, <1>4, <1>5, <1>6, <1>7, OneRunSteps, Zenon DEF InLaunch

LEMMA LaunchSteps ==
    ASSUME CallsInv, CallsInv', WatchInv, NEW r \in LaunchRuns,
           \/ \E kind \in {"grok", "other"} : Prepare(r, kind)
           \/ PrepareRefused(r) \/ ReserveCall(r) \/ ReserveRefused(r) \/ EvidenceExpires(r)
           \/ AuthorizeForLaunch(r) \/ AuthorizeRefused(r) \/ StartProcess(r)
           \/ StartProcessFails(r)
    PROVE  WatchInv'
<1>0. /\ al_run \in [LaunchRuns -> CallRows] /\ al_run' \in [LaunchRuns -> CallRows]
      /\ al_run[r] \in CallRows /\ al_mem \in Memories /\ al_task \in Budgets
      /\ PhaseOK(r) /\ Affordable(r) /\ ~al_task.failClosed /\ CallLimits \subseteq Nat
  BY LaunchAssumption DEF CallsInv, WatchInv
<1>1. ASSUME NEW kind \in {"grok", "other"}, Prepare(r, kind) PROVE WatchInv'
  <2>1. Launched(r, "prepared", r)
    BY <1>0, <1>1 DEF Prepare, PutEvidence, Launched, CallRows, Memories
  <2> QED BY <1>1, <2>1, LaunchMoves DEF Prepare, InLaunch
<1>2. CASE PrepareRefused(r)
  <2>1. Launched(r, "refused", 0)
    BY <1>0, <1>2 DEF PrepareRefused, Refuse, RunEnded, Launched, CallRows, Memories
  <2> QED BY <1>2, <2>1, LaunchMoves DEF PrepareRefused, InLaunch
<1>3. CASE ReserveCall(r)
  <2>1. Launched(r, "reserved", r)
    BY <1>0, <1>3 DEF ReserveCall, At, CurrentRun, Launched, CallRows, Memories
  <2> QED BY <1>3, <2>1, LaunchMoves DEF ReserveCall, CanLaunch, At, CurrentRun, InLaunch
<1>4. CASE ReserveRefused(r)
  <2>1. Launched(r, "refused", 0)
    BY <1>0, <1>4 DEF ReserveRefused, Refuse, RunEnded, Launched, CallRows, Memories
  <2> QED BY <1>4, <2>1, LaunchMoves DEF ReserveRefused, At, CurrentRun, InLaunch
<1>5. CASE EvidenceExpires(r)
  <2>1. Launched(r, al_run[r].phase, r)
    BY <1>0, <1>5 DEF EvidenceExpires, CurrentRun, Launched, CallRows, Memories
  <2> QED BY <1>0, <1>5, <2>1, LaunchMoves DEF EvidenceExpires, CurrentRun, InLaunch, Affordable
<1>6. CASE AuthorizeForLaunch(r)
  <2>1. Launched(r, "authorized", r)
    BY <1>0, <1>6 DEF AuthorizeForLaunch, At, CurrentRun, Launched, CallRows, Memories
  <2> QED BY <1>0, <1>6, <2>1, LaunchMoves
          DEF AuthorizeForLaunch, At, CurrentRun, InLaunch, Affordable, Verified,
              ReservationLaunchable, Exhausted
<1>7. CASE AuthorizeRefused(r)
  <2>1. Launched(r, "refused", 0)
    BY <1>0, <1>7 DEF AuthorizeRefused, RunEnded, Launched, CallRows, Memories
  <2> QED BY <1>7, <2>1, LaunchMoves DEF AuthorizeRefused, At, CurrentRun, InLaunch
<1>8. CASE StartProcess(r)
  <2>1. Launched(r, "started", r)
    BY <1>0, <1>8 DEF StartProcess, At, CurrentRun, Launched, CallRows, Memories
  <2> QED BY <1>0, <1>8, <2>1, LaunchMoves DEF StartProcess, At, CurrentRun, InLaunch, Affordable
<1>9. CASE StartProcessFails(r)
  <2>1. Launched(r, "refused", 0)
    BY <1>0, <1>9 DEF StartProcessFails, RunEnded, Launched, CallRows, Memories
  <2> QED BY <1>9, <2>1, LaunchMoves DEF StartProcessFails, At, CurrentRun, InLaunch
<1> QED BY <1>1, <1>2, <1>3, <1>4, <1>5, <1>6, <1>7, <1>8, <1>9

LEMMA RunSettles ==
    ASSUME CallsInv, CallsInv', WatchInv, NEW r \in LaunchRuns,
           \/ LosesRun(r)
           \/ \E forceFailed \in BOOLEAN : Settles(r, forceFailed)
           \/ \E failed \in BOOLEAN : RunEnds(r, failed)
    PROVE  WatchInv'
<1>0. /\ al_run \in [LaunchRuns -> CallRows] /\ al_run' \in [LaunchRuns -> CallRows]
      /\ al_run[r] \in CallRows /\ al_mem \in Memories /\ al_task \in Budgets
      /\ PhaseOK(r) /\ Affordable(r) /\ ~al_task.failClosed
  BY DEF CallsInv, WatchInv
<1>1. 0 \notin LaunchRuns
  BY LaunchAssumption, FS_CardinalityType
<1>2. CASE LosesRun(r)
  <2>1. /\ \A q \in LaunchRuns : q # r => al_run'[q] = al_run[q]
        /\ al_run'[r].phase = "lost" /\ al_run'[r].call = "consumed"
        /\ al_run'[r].used = al_run[r].used /\ al_run'[r].open = al_run[r].open
        /\ al_run'[r].stop = al_run[r].stop /\ al_run[r].phase = "running"
    BY <1>0, <1>2 DEF LosesRun, RunEnded, CallRows, At
  <2>2. /\ al_mem' \in Memories /\ al_mem'.cur = 0 /\ al_mem.cur = r
        /\ al_mem'.timers = al_mem.timers /\ al_mem'.stopping = al_mem.stopping
        /\ al_mem'.finalized = al_mem.finalized /\ al_mem'.followed = al_mem.followed
        /\ al_mem'.ended = al_mem.ended
    BY <1>0, <1>2 DEF LosesRun, Memories, At, CurrentRun
  <2>3. al_task'.failClosed = al_task.failClosed
    BY <1>0, <1>2 DEF LosesRun, Budgets
  <2>4. PhaseOK(r)' /\ Affordable(r)' /\ (Unstopped(r)' => Unstopped(r))
    BY <1>0, <1>1, <2>1, <2>2 DEF PhaseOK, Affordable, Unstopped, InLaunch, CurrentRun, Spent
  <2> QED BY <1>1, <2>1, <2>2, <2>3, <2>4, OneRunSteps
<1>3. ASSUME NEW failed \in BOOLEAN, RunEnds(r, failed) PROVE WatchInv'
  <2> DEFINE ended == IntervalClosed(RunEnded(al_run, r, "done"), r)
  <2>0. /\ \A q \in LaunchRuns : q # r => ended[q] = al_run[q]
        /\ ended \in [LaunchRuns -> CallRows]
        /\ ended[r].phase = "done" /\ ended[r].open = FALSE
        /\ ended[r].used = al_run[r].used /\ ended[r].stop = al_run[r].stop
    <3> DEFINE over == [al_run[r] EXCEPT !.phase = "done", !.evidence = "none",
                                         !.ready = "none", !.auth = "none", !.open = FALSE]
    <3>1. /\ over \in CallRows /\ over.phase = "done" /\ over.open = FALSE
          /\ over.used = al_run[r].used /\ over.stop = al_run[r].stop
      BY <1>0, ZenonT(60) DEF CallRows
    <3>2. ended = [al_run EXCEPT ![r] = over]
      BY <1>0 DEF RunEnded, IntervalClosed
    <3> HIDE DEF ended, over
    <3> QED BY <1>0, <3>1, <3>2
  <2>9. \E call : al_run' = [ended EXCEPT ![r].call = call]
    BY <1>3 DEF RunEnds
  <2>5. al_run[r].phase = "running"
    BY <1>3 DEF RunEnds, At
  <2> HIDE DEF ended
  <2>1. /\ \A q \in LaunchRuns : q # r => al_run'[q] = al_run[q]
        /\ al_run'[r].phase = "done" /\ al_run'[r].open = FALSE
        /\ al_run'[r].used = al_run[r].used /\ al_run'[r].stop = al_run[r].stop
    BY <2>0, <2>9 DEF CallRows
  <2>2. /\ al_mem' \in Memories /\ al_mem'.cur = 0 /\ al_mem.cur = r
        /\ al_mem'.timers = al_mem.timers /\ al_mem'.stopping = al_mem.stopping
        /\ al_mem'.finalized = al_mem.finalized /\ al_mem'.followed = al_mem.followed
        /\ al_mem'.ended = al_mem.ended
    BY <1>0, <1>3 DEF RunEnds, Memories, At, CurrentRun
  <2>3. al_task'.failClosed = al_task.failClosed
    BY <1>0, <1>3 DEF RunEnds, Budgets
  <2>4. PhaseOK(r)' /\ Affordable(r)' /\ (Unstopped(r)' => Unstopped(r))
    BY <1>0, <1>1, <2>1, <2>2 DEF PhaseOK, Affordable, Unstopped, InLaunch, CurrentRun
  <2> QED BY <1>1, <2>1, <2>2, <2>3, <2>4, <2>5, OneRunSteps
<1>4. ASSUME NEW forceFailed \in BOOLEAN, Settles(r, forceFailed) PROVE WatchInv'
  <2>1. /\ \A q \in LaunchRuns : q # r => al_run'[q] = al_run[q]
        /\ al_run'[r].phase = al_run[r].phase /\ al_run'[r].call = al_run[r].call
        /\ al_run'[r].used = al_run[r].used /\ (al_run'[r].open => al_run[r].open)
        /\ al_run'[r].stop = StopVerdict(r, forceFailed)
    <3> DEFINE proc == IF forceFailed THEN "unproven" ELSE "gone"
               verdict == StopVerdict(r, forceFailed)
               open == al_run[r].open /\ (r \notin al_mem.stopping \/ forceFailed)
               row == [al_run[r] EXCEPT !.proc = proc, !.stop = verdict, !.open = open]
    <3>1. al_run' = [al_run EXCEPT ![r] = row]
      BY <1>0, <1>4 DEF Settles
    <3>2. open => al_run[r].open
      OBVIOUS
    <3> HIDE DEF proc, verdict, open
    <3>3. /\ row.phase = al_run[r].phase /\ row.call = al_run[r].call
          /\ row.used = al_run[r].used /\ row.open = open /\ row.stop = verdict
      BY <1>0 DEF CallRows
    <3> HIDE DEF row
    <3> QED BY <1>0, <3>1, <3>2, <3>3 DEF verdict
  <2>2. al_run[r].stop # "none" => al_run'[r].stop # "none"
    BY <2>1 DEF StopVerdict
  <2>3. /\ al_mem' \in Memories /\ al_mem'.cur = al_mem.cur
        /\ al_mem'.timers = al_mem.timers /\ al_mem'.followed = al_mem.followed
        /\ al_mem'.ended = al_mem.ended \cup {r}
        /\ al_mem'.stopping \cup al_mem'.finalized \subseteq al_mem.stopping \cup al_mem.finalized
    BY <1>0, <1>4 DEF Settles, Memories
  <2>4. al_task' = al_task
    BY <1>4 DEF Settles
  <2>5. PhaseOK(r)'
    BY <1>0, <2>1, <2>2, <2>3 DEF PhaseOK, CurrentRun
  <2>6. ~Unstopped(r)'
    BY <2>3 DEF Unstopped
  <2>7. Affordable(r)'
    <3>1. TotalUsed' = TotalUsed
      BY <1>0, <2>1, TotalKept
    <3>2. LostRuns' = LostRuns
      BY <2>1 DEF LostRuns
    <3> QED BY <1>0, <2>1, <2>4, <3>1, <3>2 DEF Affordable
  <2> QED BY <2>1, <2>3, <2>4, <2>5, <2>6, <2>7, OneRunSteps
<1> QED BY <1>2, <1>3, <1>4

\* A step that leaves what the runs have come to as it is.
LEMMA WatchesMove ==
    ASSUME CallsInv, CallsInv', WatchInv,
           \A q \in LaunchRuns :
               /\ al_run'[q].phase = al_run[q].phase /\ al_run'[q].call = al_run[q].call
               /\ al_run'[q].open = al_run[q].open /\ al_run'[q].used = al_run[q].used
               /\ al_run[q].stop # "none" => al_run'[q].stop # "none"
               /\ q \in al_mem'.stopping \cup al_mem'.finalized => al_run'[q].stop # "none"
               /\ Watched(q)',
           al_mem' \in Memories, al_mem'.cur = al_mem.cur,
           al_task'.failClosed = al_task.failClosed,
           \/ al_task'.exhausted = al_task.exhausted \/ LostRuns # {}
           \/ \A q \in LaunchRuns : al_run[q].phase \notin {"authorized", "started"}
    PROVE  WatchInv'
<1>1. TotalUsed' = TotalUsed
  BY TotalKept DEF CallsInv
<1>2. LostRuns' = LostRuns
  BY DEF LostRuns
<1>3. ASSUME NEW q \in LaunchRuns PROVE PhaseOK(q)' /\ Affordable(q)'
  <2>1. PhaseOK(q) /\ Affordable(q)
    BY DEF WatchInv
  <2> QED BY <1>1, <1>2, <2>1 DEF PhaseOK, CurrentRun, Affordable
<1> QED BY <1>3 DEF WatchInv

\* What is left of the time of q, and its watches, when nobody's time goes on.
LEMMA StillWatched ==
    ASSUME CallsInv, CallsInv', WatchInv, NEW q \in LaunchRuns, Unstopped(q)' => Unstopped(q),
           \A p \in LaunchRuns : al_run'[p].used = al_run[p].used, LostRuns \subseteq LostRuns',
           \A t \in al_mem.timers : t[1] = q /\ t[2] # "force" => t \in al_mem'.timers
    PROVE  Watched(q)'
<1>1. TotalUsed' = TotalUsed
  BY TotalKept DEF CallsInv
<1>2. Watched(q)
  BY DEF WatchInv
<1> QED BY <1>1, <1>2 DEF Watched

\* The process is followed: its watches get what is left.
LEMMA FollowStep ==
    ASSUME CallsInv, CallsInv', WatchInv, NEW r \in LaunchRuns, FollowProcess(r)
    PROVE  WatchInv'
<1>0. /\ al_run \in [LaunchRuns -> CallRows] /\ al_run' \in [LaunchRuns -> CallRows]
      /\ al_run[r] \in CallRows /\ al_mem \in Memories /\ al_task \in Budgets
      /\ PhaseOK(r) /\ Affordable(r) /\ ~al_task.failClosed /\ Accounted(al_run[r])
      /\ al_mem.cur = r /\ al_run[r].phase = "started"
  BY DEF CallsInv, WatchInv, FollowProcess, At, CurrentRun
<1>1. AttemptLimit \in Nat /\ AttemptLimit > 0 /\ TotalLimit \in Nat /\ TotalUsed \in Nat
  <2>1. {AttemptLimit, TotalLimit} \subseteq Nat \ {0}
    BY LaunchAssumption
  <2>2. TotalUsed \in Nat
    BY <1>0, TotalTyped
  <2> QED BY <2>1, <2>2
<1>2. /\ \A q \in LaunchRuns : q # r => al_run'[q] = al_run[q]
      /\ al_run'[r].phase = "running" /\ al_run'[r].open = TRUE
      /\ al_run'[r].call = al_run[r].call /\ al_run'[r].used = al_run[r].used
      /\ al_run'[r].stop = al_run[r].stop /\ al_run[r].used = 0 /\ al_run[r].call \in Spent
  BY <1>0 DEF FollowProcess, CallRows, PhaseOK, InLaunch, Accounted, Spent
<1>3. TotalUsed' = TotalUsed
  BY <1>0, <1>2, TotalKept
<1>4. LostRuns' = LostRuns /\ r \notin LostRuns
  BY <1>0, <1>2 DEF LostRuns
<1>5. /\ al_mem'.cur = r /\ al_mem'.followed = al_mem.followed \cup {r}
      /\ al_mem'.stopping = al_mem.stopping /\ al_mem'.finalized = al_mem.finalized
      /\ al_mem'.ended = al_mem.ended /\ al_task' = al_task
      /\ al_mem'.timers = IF Exhausted THEN al_mem.timers ELSE Armed(r)
      /\ al_mem' = [al_mem EXCEPT !.followed = al_mem'.followed, !.timers = al_mem'.timers]
  BY <1>0 DEF FollowProcess, Memories
<1>6. Armed(r) \subseteq Watches
  BY <1>0, <1>1 DEF Armed, Cancelled, Watches, Memories, RemainingAttempt, RemainingTotal, CallRows
<1>7. al_mem' \in Memories
  <2>1. al_mem'.timers \subseteq Watches
    BY <1>0, <1>5, <1>6 DEF Memories
  <2> QED BY <1>0, <1>5, <2>1 DEF Memories
<1>8. ASSUME NEW q \in LaunchRuns, q # r PROVE PhaseOK(q)' /\ Affordable(q)' /\ Watched(q)'
  <2>1. PhaseOK(q)
    BY DEF WatchInv
  <2>2. PhaseOK(q)' /\ Affordable(q)'
    BY <1>0, <1>2, <1>5, <1>8, <2>1 DEF PhaseOK, CurrentRun, Affordable, InLaunch
  <2>3. Unstopped(q)' => Unstopped(q)
    BY <1>2, <1>5, <1>8 DEF Unstopped
  <2>4. \A t \in al_mem.timers : t[1] = q /\ t[2] # "force" => t \in al_mem'.timers
    BY <1>5, <1>8 DEF Armed, Cancelled, Timers
  <2>5. \A p \in LaunchRuns : al_run'[p].used = al_run[p].used
    BY <1>2
  <2> QED BY <1>4, <2>2, <2>3, <2>4, <2>5, StillWatched
<1>9. PhaseOK(r)' /\ Affordable(r)'
  BY <1>0, <1>2, <1>5 DEF PhaseOK, CurrentRun, Affordable, InLaunch
<1>10. Watched(r)'
  <2> SUFFICES ASSUME LostRuns = {}
               PROVE  /\ \E t \in al_mem'.timers : /\ t[1] = r /\ t[2] = "attempt"
                                                   /\ al_run'[r].used + t[3] = AttemptLimit
                      /\ \E t \in al_mem'.timers : /\ t[1] = r /\ t[2] = "total"
                                                   /\ TotalUsed' + t[3] = TotalLimit
    BY <1>4 DEF Watched
  <2>1. TotalUsed < TotalLimit /\ ~Exhausted
    BY <1>0 DEF Affordable, Exhausted
  <2>2. /\ <<r, "attempt", RemainingAttempt(r)>> \in al_mem'.timers
        /\ <<r, "total", RemainingTotal>> \in al_mem'.timers
    BY <1>5, <2>1 DEF Armed
  <2>3. al_run'[r].used + RemainingAttempt(r) = AttemptLimit /\ TotalUsed' + RemainingTotal = TotalLimit
    BY <1>1, <1>2, <1>3, <2>1 DEF RemainingAttempt, RemainingTotal
  <2> HIDE DEF RemainingAttempt, RemainingTotal
  <2> QED BY <2>2, <2>3
<1> QED BY <1>0, <1>5, <1>7, <1>8, <1>9, <1>10 DEF WatchInv

LEMMA TickStep ==
    ASSUME CallsInv, CallsInv', WatchInv, Tick PROVE WatchInv'
<1>0. /\ al_run \in [LaunchRuns -> CallRows] /\ al_run' \in [LaunchRuns -> CallRows]
      /\ al_mem \in Memories /\ ~al_task.failClosed /\ al_task' = al_task
      /\ TotalUsed \in Nat /\ AttemptLimit \in Nat /\ TotalLimit \in Nat
  BY LaunchAssumption, TotalTyped DEF CallsInv, WatchInv, Tick
<1>1. \A q \in LaunchRuns :
          /\ al_run'[q].phase = al_run[q].phase /\ al_run'[q].call = al_run[q].call
          /\ al_run'[q].open = al_run[q].open /\ al_run'[q].stop = al_run[q].stop
          /\ al_run'[q].used = IF al_run[q].open THEN al_run[q].used + 1 ELSE al_run[q].used
          /\ al_run[q].used \in Nat
  BY <1>0 DEF Tick, CallRows
<1>2. /\ al_mem'.cur = al_mem.cur /\ al_mem'.followed = al_mem.followed
      /\ al_mem'.stopping = al_mem.stopping /\ al_mem'.finalized = al_mem.finalized
      /\ al_mem'.ended = al_mem.ended
      /\ al_mem'.timers = {<<t[1], t[2], t[3] - 1>> : t \in al_mem.timers}
      /\ al_mem' = [al_mem EXCEPT !.timers = al_mem'.timers]
  BY <1>0 DEF Tick, Memories
<1>3. \A t \in al_mem.timers : t \in Watches /\ t[3] \in Nat /\ t[3] > 0
  BY <1>0 DEF Tick, Due, Memories, Watches
<1>4. al_mem' \in Memories
  <2>1. al_mem'.timers \subseteq Watches
    BY <1>2, <1>3 DEF Watches
  <2> QED BY <1>0, <1>2, <2>1 DEF Memories
<1>5. LostRuns' = LostRuns
  BY <1>1 DEF LostRuns
<1>6. ASSUME LostRuns = {}, NEW q \in LaunchRuns, al_run[q].open
      PROVE  q = al_mem.cur /\ al_run[q].phase = "running"
  BY <1>6 DEF WatchInv, PhaseOK, InLaunch, LostRuns, CurrentRun
<1>7. ASSUME NEW q \in LaunchRuns PROVE PhaseOK(q)'
  <2>1. PhaseOK(q)
    BY DEF WatchInv
  <2> QED BY <1>1, <1>2, <2>1 DEF PhaseOK, CurrentRun, InLaunch
<1>8. ASSUME NEW q \in LaunchRuns PROVE Affordable(q)'
  <2> SUFFICES ASSUME LostRuns = {}, al_run[q].phase \in {"reserved", "authorized", "started"}
               PROVE  TotalUsed' < TotalLimit
                      /\ (al_run[q].phase \in {"authorized", "started"} => ~al_task.exhausted)
    BY <1>0, <1>1, <1>5 DEF Affordable
  <2>1. Affordable(q) /\ PhaseOK(q)
    BY DEF WatchInv
  <2>2. q = al_mem.cur
    BY <2>1 DEF PhaseOK, InLaunch, CurrentRun
  <2>3. \A p \in LaunchRuns : al_run'[p].used = al_run[p].used
    BY <1>1, <1>6, <2>2
  <2>4. TotalUsed' = TotalUsed
    BY <1>0, <2>3, TotalKept
  <2> QED BY <2>1, <2>4 DEF Affordable
<1>9. ASSUME NEW q \in LaunchRuns PROVE Watched(q)'
  <2> SUFFICES ASSUME Unstopped(q)' PROVE
           /\ LostRuns \subseteq {q} =>
                  \E t \in al_mem'.timers : /\ t[1] = q /\ t[2] = "attempt"
                                            /\ al_run'[q].used + t[3] = AttemptLimit
           /\ LostRuns = {} =>
                  \E t \in al_mem'.timers : /\ t[1] = q /\ t[2] = "total"
                                            /\ TotalUsed' + t[3] = TotalLimit
    BY <1>5 DEF Watched
  <2>1. Unstopped(q) /\ al_run[q].open
    BY <1>1, <1>2 DEF Unstopped
  <2>2. Watched(q)
    BY DEF WatchInv
  <2>3. ASSUME NEW t \in al_mem.timers
        PROVE  \E u \in al_mem'.timers : u[1] = t[1] /\ u[2] = t[2] /\ u[3] = t[3] - 1
    <3>1. <<t[1], t[2], t[3] - 1>> \in al_mem'.timers
      BY <1>2
    <3> QED BY <3>1
  <2>4. CASE LostRuns \subseteq {q}
    <3>1. PICK t \in al_mem.timers : /\ t[1] = q /\ t[2] = "attempt"
                                     /\ al_run[q].used + t[3] = AttemptLimit
      BY <2>1, <2>2, <2>4 DEF Watched
    <3>2. PICK u \in al_mem'.timers : u[1] = q /\ u[2] = "attempt" /\ u[3] = t[3] - 1
      BY <2>3, <3>1
    <3>3. al_run'[q].used + u[3] = AttemptLimit
      BY <1>0, <1>1, <1>3, <2>1, <3>1, <3>2
    <3>4. CASE LostRuns = {}
      <4>1. PICK v \in al_mem.timers : v[1] = q /\ v[2] = "total" /\ TotalUsed + v[3] = TotalLimit
        BY <2>1, <2>2, <3>4 DEF Watched
      <4>2. PICK w \in al_mem'.timers : w[1] = q /\ w[2] = "total" /\ w[3] = v[3] - 1
        BY <2>3, <4>1
      <4>3. \A p \in LaunchRuns : al_run'[p].used = al_run[p].used + (IF p = q THEN 1 ELSE 0)
        BY <1>1, <1>6, <2>1, <3>4
      <4>4. TotalUsed' = TotalUsed + 1
        BY <1>0, <4>3, TotalGrows
      <4>5. TotalUsed' + w[3] = TotalLimit
        BY <1>0, <1>3, <4>1, <4>2, <4>4
      <4> QED BY <3>2, <3>3, <4>2, <4>5
    <3> QED BY <3>2, <3>3, <3>4
  <2> QED BY <2>4
<1> QED BY <1>0, <1>4, <1>7, <1>8, <1>9 DEF WatchInv

LEMMA ForceWatchStep ==
    ASSUME CallsInv, CallsInv', WatchInv, NEW t \in al_mem.timers, ForceFires(t)
    PROVE  WatchInv'
<1>0. al_run' = al_run /\ al_task' = al_task /\ al_mem \in Memories /\ t[2] = "force"
  BY DEF ForceFires, WatchInv
<1>1. /\ al_mem'.timers = al_mem.timers \ {t} /\ al_mem' \in Memories
      /\ al_mem'.cur = al_mem.cur /\ al_mem'.followed = al_mem.followed
      /\ al_mem'.stopping = al_mem.stopping /\ al_mem'.finalized = al_mem.finalized
      /\ al_mem'.ended = al_mem.ended
  BY <1>0 DEF ForceFires, Memories
<1>2. ASSUME NEW q \in LaunchRuns PROVE Watched(q)'
  <2>1. Unstopped(q)' => Unstopped(q)
    BY <1>0, <1>1 DEF Unstopped
  <2> QED BY <1>0, <1>1, <2>1, StillWatched DEF LostRuns
<1>3. \A q \in LaunchRuns : q \in al_mem.stopping \cup al_mem.finalized => al_run[q].stop # "none"
  BY DEF WatchInv, PhaseOK
<1> QED BY <1>0, <1>1, <1>2, <1>3, WatchesMove

\* A watch that fires and is not followed up was not the last one of its run.
LEMMA SpareWatch ==
    ASSUME CallsInv, WatchInv, NEW t \in Due, t[2] # "force",
           \/ t[2] = "attempt" /\ ~al_run[t[1]].open
           \/ OverLimit(t[1], t[2]) => t[1] \in al_mem.stopping \cup al_mem.finalized,
           NEW q \in LaunchRuns, Unstopped(q)
    PROVE  /\ LostRuns \subseteq {q} =>
                  \E u \in al_mem.timers \ {t} : /\ u[1] = q /\ u[2] = "attempt"
                                                 /\ al_run[q].used + u[3] = AttemptLimit
           /\ LostRuns = {} =>
                  \E u \in al_mem.timers \ {t} : /\ u[1] = q /\ u[2] = "total"
                                                 /\ TotalUsed + u[3] = TotalLimit
<1>0. /\ Watched(q) /\ PhaseOK(q) /\ al_run[q].used \in Nat /\ al_run[q].open /\ t[3] = 0
      /\ AttemptLimit \in Nat /\ TotalLimit \in Nat /\ TotalUsed \in Nat
      /\ q \notin al_mem.stopping \cup al_mem.finalized
  BY LaunchAssumption, TotalTyped DEF WatchInv, CallsInv, CallRows, Due, Unstopped, PhaseOK
<1>1. ASSUME t[1] = q, t[2] = "attempt" PROVE al_run[q].used + t[3] # AttemptLimit
  BY <1>0, <1>1 DEF OverLimit
<1>2. ASSUME t[1] = q, t[2] = "total" PROVE TotalUsed + t[3] # TotalLimit
  BY <1>0, <1>2 DEF OverLimit
<1> QED BY <1>0, <1>1, <1>2 DEF Watched

LEMMA TimerStep ==
    ASSUME CallsInv, CallsInv', WatchInv, NEW t \in al_mem.timers, TimerFires(t)
    PROVE  WatchInv'
<1> DEFINE r == t[1]
           rest == al_mem.timers \ {t}
<1>0. /\ al_run \in [LaunchRuns -> CallRows] /\ al_run' \in [LaunchRuns -> CallRows]
      /\ al_mem \in Memories /\ ~al_task.failClosed /\ al_task \in Budgets
      /\ t \in Due /\ t \in Watches /\ r \in LaunchRuns /\ t[2] # "force" /\ rest \subseteq Watches
  BY DEF CallsInv, WatchInv, TimerFires, Memories, Watches
<1>1. AttemptLimit \in Nat /\ TotalLimit \in Nat /\ TotalUsed \in Nat /\ GraceUnits \in Nat
  BY <1>0, LaunchAssumption, TotalTyped
<1>2. \A q \in LaunchRuns : q \in al_mem.stopping \cup al_mem.finalized => al_run[q].stop # "none"
  BY DEF WatchInv, PhaseOK
<1> DEFINE Dropped == \/ t[2] = "attempt" /\ ~al_run[r].open
                      \/ OverLimit(r, t[2]) /\ r \in al_mem.stopping \cup al_mem.finalized
<1>3. CASE Dropped \/ ~OverLimit(r, t[2])
  <2>1. /\ al_run' = al_run /\ al_task' = al_task
        /\ al_mem' = [al_mem EXCEPT !.timers = al_mem'.timers]
        /\ \/ al_mem'.timers = rest
           \/ ~OverLimit(r, t[2]) /\ al_mem'.timers = Armed(r)
    BY <1>0, <1>3 DEF TimerFires, Memories
  <2>2. Armed(r) \subseteq Watches
    BY <1>0, <1>1 DEF Armed, Cancelled, Watches, Memories, RemainingAttempt, RemainingTotal, CallRows
  <2>3. /\ al_mem' \in Memories /\ al_mem'.cur = al_mem.cur /\ al_mem'.followed = al_mem.followed
        /\ al_mem'.stopping = al_mem.stopping /\ al_mem'.finalized = al_mem.finalized
        /\ al_mem'.ended = al_mem.ended
    <3>1. al_mem'.timers \subseteq Watches
      BY <1>0, <2>1, <2>2
    <3> QED BY <1>0, <2>1, <3>1 DEF Memories
  <2>4. LostRuns' = LostRuns /\ TotalUsed' = TotalUsed
    BY <1>0, <2>1, TotalKept DEF LostRuns
  <2>5. ASSUME NEW q \in LaunchRuns PROVE Watched(q)'
    <3> SUFFICES ASSUME Unstopped(q) PROVE
             /\ LostRuns \subseteq {q} =>
                    \E u \in al_mem'.timers : /\ u[1] = q /\ u[2] = "attempt"
                                              /\ al_run[q].used + u[3] = AttemptLimit
             /\ LostRuns = {} =>
                    \E u \in al_mem'.timers : /\ u[1] = q /\ u[2] = "total"
                                              /\ TotalUsed + u[3] = TotalLimit
      BY <2>1, <2>3, <2>4 DEF Watched, Unstopped
    <3>1. /\ LostRuns \subseteq {q} =>
                 \E u \in rest : /\ u[1] = q /\ u[2] = "attempt"
                                 /\ al_run[q].used + u[3] = AttemptLimit
          /\ LostRuns = {} =>
                 \E u \in rest : /\ u[1] = q /\ u[2] = "total" /\ TotalUsed + u[3] = TotalLimit
      BY <1>0, <1>3, SpareWatch
    <3>2. CASE al_mem'.timers = rest
      BY <3>1, <3>2
    <3>3. CASE al_mem'.timers = Armed(r) /\ q # r
      <4>1. \A u \in rest : u[1] = q => u \in al_mem'.timers
        BY <3>3 DEF Armed, Cancelled, Timers
      <4> QED BY <3>1, <4>1
    <3>4. CASE al_mem'.timers = Armed(r) /\ q = r
      <4>1. \A u \in rest : u[3] \in Nat
        BY <1>0 DEF Watches
      <4>2. al_run[q].used \in Nat
        BY <1>0 DEF CallRows
      <4>3. LostRuns \subseteq {q} => al_run[q].used + RemainingAttempt(q) = AttemptLimit
        BY <1>1, <3>1, <4>1, <4>2 DEF RemainingAttempt
      <4>4. LostRuns = {} => TotalUsed + RemainingTotal = TotalLimit
        BY <1>1, <3>1, <4>1 DEF RemainingTotal
      <4>5. <<q, "attempt", RemainingAttempt(q)>> \in al_mem'.timers
            /\ <<q, "total", RemainingTotal>> \in al_mem'.timers
        BY <3>4 DEF Armed
      <4> HIDE DEF RemainingAttempt, RemainingTotal
      <4> QED BY <4>3, <4>4, <4>5
    <3> QED BY <2>1, <3>2, <3>3, <3>4
  <2> QED BY <1>2, <2>1, <2>3, <2>5, WatchesMove
<1>4. CASE ~Dropped /\ OverLimit(r, t[2])
  <2>1. BeginStop(r, rest)
    BY <1>0, <1>4 DEF TimerFires
  <2>2. /\ \A q \in LaunchRuns : q # r => al_run'[q] = al_run[q]
        /\ al_run'[r].phase = al_run[r].phase /\ al_run'[r].call = al_run[r].call
        /\ al_run'[r].open = al_run[r].open /\ al_run'[r].used = al_run[r].used
        /\ al_run'[r].stop = "intent" /\ al_task'.failClosed = al_task.failClosed
    BY <1>0, <2>1 DEF BeginStop, CallRows, Budgets
  <2>3. /\ al_mem'.timers = (rest \ Timers(r, {"attempt", "total"})) \cup {<<r, "force", GraceUnits>>}
        /\ al_mem'.stopping = al_mem.stopping \cup {r}
        /\ al_mem' = [al_mem EXCEPT !.stopping = al_mem'.stopping, !.timers = al_mem'.timers]
    BY <1>0, <2>1 DEF BeginStop, Memories
  <2>4. /\ al_mem' \in Memories /\ al_mem'.cur = al_mem.cur /\ al_mem'.followed = al_mem.followed
        /\ al_mem'.finalized = al_mem.finalized /\ al_mem'.ended = al_mem.ended
    <3>1. al_mem'.timers \subseteq Watches /\ al_mem'.stopping \subseteq LaunchRuns
      BY <1>0, <1>1, <2>3 DEF Watches, Memories
    <3> QED BY <1>0, <2>3, <3>1 DEF Memories
  <2>5. ASSUME NEW q \in LaunchRuns PROVE Watched(q)'
    <3>1. CASE q = r
      BY <2>2, <3>1 DEF Watched, Unstopped
    <3>2. CASE q # r
      <4>1. Unstopped(q)' => Unstopped(q)
        BY <2>2, <2>4, <3>2 DEF Unstopped
      <4>2. \A u \in al_mem.timers : u[1] = q /\ u[2] # "force" => u \in al_mem'.timers
        BY <2>3, <3>2 DEF Timers
      <4>3. LostRuns \subseteq LostRuns' /\ \A p \in LaunchRuns : al_run'[p].used = al_run[p].used
        BY <2>2 DEF LostRuns
      <4> QED BY <4>1, <4>2, <4>3, StillWatched
    <3> QED BY <3>1, <3>2
  <2>6. ASSUME LostRuns = {}, NEW q \in LaunchRuns PROVE al_run[q].phase \notin {"authorized", "started"}
    <3>1. PhaseOK(q) /\ PhaseOK(r) /\ Affordable(q) /\ r \notin LostRuns
      BY <1>0, <2>6 DEF WatchInv
    <3>2. CASE t[2] = "attempt"
      BY <1>0, <1>4, <3>1, <3>2 DEF PhaseOK, InLaunch, LostRuns
    <3>3. CASE t[2] = "total"
      BY <1>0, <1>1, <1>4, <2>6, <3>1, <3>3 DEF OverLimit, Affordable
    <3> QED BY <1>0, <3>2, <3>3 DEF Watches
  <2>7. \A q \in LaunchRuns : q \in al_mem'.stopping \cup al_mem'.finalized => al_run'[q].stop # "none"
    BY <1>2, <2>2, <2>3, <2>4
  <2>8. \A q \in LaunchRuns : /\ al_run'[q].phase = al_run[q].phase /\ al_run'[q].call = al_run[q].call
                              /\ al_run'[q].open = al_run[q].open /\ al_run'[q].used = al_run[q].used
                              /\ al_run[q].stop # "none" => al_run'[q].stop # "none"
    BY <2>2
  <2> HIDE DEF r, rest, Dropped
  <2> QED BY <2>2, <2>4, <2>5, <2>6, <2>7, <2>8, WatchesMove
<1> QED BY <1>3, <1>4

LEMMA CrashStep ==
    ASSUME CallsInv, CallsInv', WatchInv, AppCrashes PROVE WatchInv'
<1>0. al_run \in [LaunchRuns -> CallRows] /\ ~al_task.failClosed /\ al_task' = al_task
  BY DEF CallsInv, WatchInv, AppCrashes
<1>1. /\ al_mem' \in Memories /\ al_mem'.cur = 0 /\ al_mem'.followed = {}
      /\ al_mem'.stopping = {} /\ al_mem'.finalized = {}
  BY DEF AppCrashes, Memories
<1>2. ASSUME NEW r \in LaunchRuns
      PROVE  /\ al_run'[r].phase = IF r = CurrentRun THEN "lost" ELSE al_run[r].phase
             /\ al_run'[r].call = al_run[r].call /\ al_run'[r].open = al_run[r].open
             /\ al_run'[r].used = al_run[r].used
  <2> DEFINE lost == RunEnded(al_run, r, "lost")[r]
  <2>1. al_run[r] \in CallRows
    BY <1>0
  <2>2. CASE r = CurrentRun
    <3>1. /\ lost \in CallRows /\ lost.phase = "lost" /\ lost.call = al_run[r].call
          /\ lost.open = al_run[r].open /\ lost.used = al_run[r].used
      <4>1. lost = [al_run[r] EXCEPT !.phase = "lost", !.evidence = "none",
                                     !.ready = "none", !.auth = "none"]
        BY <1>0, ZenonT(30) DEF RunEnded
      <4> HIDE DEF lost
      <4> QED BY <2>1, <4>1 DEF CallRows
    <3>2. al_run'[r] = [lost EXCEPT !.proc = IF @ = "alive" THEN "unproven" ELSE @]
      BY <2>2 DEF AppCrashes
    <3> HIDE DEF lost
    <3>3. PICK proc : al_run'[r] = [lost EXCEPT !.proc = proc]
      BY <3>2
    <3> QED BY <2>2, <3>1, <3>3 DEF CallRows
  <2>3. CASE r # CurrentRun
    <3>1. PICK proc : al_run'[r] = [al_run[r] EXCEPT !.proc = proc]
      BY <2>3 DEF AppCrashes
    <3> QED BY <2>1, <2>3, <3>1 DEF CallRows
  <2> QED BY <2>2, <2>3
<1>3. 0 \notin LaunchRuns
  BY LaunchAssumption, FS_CardinalityType
<1>4. ASSUME NEW r \in LaunchRuns PROVE PhaseOK(r)' /\ Watched(r)' /\ Affordable(r)'
  <2>1. PhaseOK(r)
    BY DEF WatchInv
  <2>2. al_run'[r].phase \notin InLaunch /\ r # CurrentRun'
    BY <1>1, <1>2, <1>3, <2>1 DEF PhaseOK, InLaunch, CurrentRun
  <2>3. PhaseOK(r)'
    BY <1>1, <1>2, <2>1, <2>2 DEF PhaseOK, InLaunch
  <2>4. Watched(r)' /\ Affordable(r)'
    BY <1>1, <2>2 DEF Watched, Unstopped, Affordable, InLaunch
  <2> QED BY <2>3, <2>4
<1> QED BY <1>0, <1>1, <1>4 DEF WatchInv

\* A set of numbers has a least one: by their initial segments, ordered by inclusion.
LEMMA LeastNumber ==
    ASSUME NEW S \in SUBSET Nat, S # {}
    PROVE  \E m \in S : \A n \in S : m <= n
<1> DEFINE T == {0 .. n : n \in S}
<1>1. T \subseteq FiniteSubsetsOf(Nat) /\ T # {}
  <2>1. \A n \in S : 0 .. n \in SUBSET Nat /\ IsFiniteSet(0 .. n)
    BY FS_Interval
  <2> QED BY <2>1 DEF FiniteSubsetsOf
<1>2. PICK x \in T : \A y \in T : <<y, x>> \notin StrictSubsetOrdering(Nat)
  <2>1. IsWellFoundedOn(StrictSubsetOrdering(Nat), FiniteSubsetsOf(Nat))
    BY FS_StrictSubsetOrderingWellFounded
  <2> HIDE DEF T
  <2> QED BY <1>1, <2>1, WFMin
<1>3. PICK m \in S : x = 0 .. m
  OBVIOUS
<1>4. ASSUME NEW n \in S, n < m PROVE FALSE
  <2>1. 0 .. n \in T /\ 0 .. n \subseteq 0 .. m /\ 0 .. n # 0 .. m
    BY <1>4
  <2>2. <<0 .. n, 0 .. m>> \in StrictSubsetOrdering(Nat)
    BY <2>1 DEF StrictSubsetOrdering
  <2> QED BY <1>2, <1>3, <2>1, <2>2
<1>5. \A n \in S : m <= n
  BY <1>4
<1> QED BY <1>5

\* A bounded set of numbers has a greatest one: the least of its bounds.
LEMMA GreatestOne ==
    ASSUME NEW S \in SUBSET Nat, S # {}, NEW b \in Nat, \A n \in S : n <= b
    PROVE  Max(S) \in S /\ \A n \in S : n <= Max(S)
<1> DEFINE T == {n \in Nat : \A x \in S : x <= n}
<1>1. T \in SUBSET Nat /\ T # {}
  OBVIOUS
<1>2. PICK m \in T : \A n \in T : m <= n
  BY <1>1, LeastNumber
<1>3. m \in S
  <2> SUFFICES ASSUME m \notin S PROVE FALSE
    OBVIOUS
  <2>1. PICK s \in S : TRUE
    OBVIOUS
  <2>2. \A n \in S : n <= m - 1
    BY <1>2
  <2>3. m - 1 \in T
    BY <1>2, <2>1, <2>2
  <2> QED BY <1>2, <2>3
<1> QED BY <1>2, <1>3 DEF Max

\* The run whose stop is asked for again is the first one.
Reissued(r) == [al_mem EXCEPT !.stopping = @ \cup {r}, !.finalized = @ \ {r},
                              !.timers = @ \cup {<<r, "force", GraceUnits>>}]

LEMMA FirstIntent ==
    ASSUME al_mem \in Memories, ResumePendingStop
    PROVE  \E r \in LaunchRuns : al_run[r].stop = "intent" /\ al_mem' = Reissued(r)
<1> DEFINE Intents == {q \in LaunchRuns : al_run[q].stop = "intent"}
           r == CHOOSE q \in LaunchRuns : al_run[q].stop = "intent"
                            /\ \A p \in LaunchRuns : al_run[p].stop = "intent" => q <= p
<1>1. \E q \in Intents : \A p \in Intents : q <= p
  <2>1. Intents # {} /\ Intents \in SUBSET Nat
    BY LaunchAssumption, FS_CardinalityType DEF ResumePendingStop
  <2> HIDE DEF Intents
  <2> QED BY <2>1, LeastNumber
<1>2. r \in LaunchRuns /\ al_run[r].stop = "intent"
  BY <1>1
<1>3. al_mem' = Reissued(r)
  BY DEF ResumePendingStop, Reissued
<1> HIDE DEF r
<1> QED BY <1>2, <1>3

LEMMA ResumeStep ==
    ASSUME CallsInv, CallsInv', WatchInv, ResumePendingStop PROVE WatchInv'
<1>0. al_run' = al_run /\ al_task' = al_task /\ al_mem \in Memories /\ GraceUnits \in Nat
  BY LaunchAssumption DEF ResumePendingStop, WatchInv
<1>1. PICK r \in LaunchRuns : al_run[r].stop = "intent" /\ al_mem' = Reissued(r)
  BY <1>0, FirstIntent
<1> USE DEF Reissued
<1>4. /\ al_mem' \in Memories /\ al_mem'.cur = al_mem.cur /\ al_mem'.followed = al_mem.followed
      /\ al_mem'.ended = al_mem.ended /\ al_mem.timers \subseteq al_mem'.timers
      /\ al_mem'.stopping \cup al_mem'.finalized
             \subseteq al_mem.stopping \cup al_mem.finalized \cup {r}
  <2> DEFINE stopping == al_mem.stopping \cup {r}
             finalized == al_mem.finalized \ {r}
             timers == al_mem.timers \cup {<<r, "force", GraceUnits>>}
  <2>1. stopping \subseteq LaunchRuns /\ finalized \subseteq LaunchRuns /\ timers \subseteq Watches
    BY <1>0, <1>1 DEF Memories, Watches
  <2>2. al_mem.timers \subseteq timers
        /\ stopping \cup finalized \subseteq al_mem.stopping \cup al_mem.finalized \cup {r}
    OBVIOUS
  <2>3. al_mem' = [al_mem EXCEPT !.stopping = stopping, !.finalized = finalized, !.timers = timers]
    BY <1>0, <1>1 DEF Memories
  <2> HIDE DEF stopping, finalized, timers
  <2> QED BY <1>0, <2>1, <2>2, <2>3 DEF Memories
<1>5. ASSUME NEW q \in LaunchRuns PROVE Watched(q)'
  <2>1. Unstopped(q)' => Unstopped(q)
    BY <1>0, <1>4 DEF Unstopped
  <2> QED BY <1>0, <1>4, <2>1, StillWatched DEF LostRuns
<1>6. \A q \in LaunchRuns : q \in al_mem'.stopping \cup al_mem'.finalized => al_run[q].stop # "none"
  BY <1>1, <1>4 DEF WatchInv, PhaseOK
<1> QED BY <1>0, <1>4, <1>5, <1>6, WatchesMove

LEMMA WatchStep == CallsInv /\ CallsInv' /\ WatchInv /\ [LaunchNext]_alVars => WatchInv'
<1> SUFFICES ASSUME CallsInv, CallsInv', WatchInv, [LaunchNext]_alVars PROVE WatchInv'
  OBVIOUS
<1>1. ASSUME NEW r \in LaunchRuns, RunStep(r) PROVE WatchInv'
  BY <1>1, LaunchSteps, FollowStep, RunSettles DEF RunStep
<1>2. ASSUME NEW t \in al_mem.timers, TimerFires(t) \/ ForceFires(t) PROVE WatchInv'
  BY <1>2, TimerStep, ForceWatchStep
<1>3. ASSUME al_run' = al_run, al_mem' = al_mem, al_task'.failClosed = al_task.failClosed,
             al_task' = al_task \/ al_mem.cur = 0
      PROVE  WatchInv'
  <2>1. al_mem' \in Memories
    BY <1>3 DEF WatchInv
  <2>2. ASSUME NEW q \in LaunchRuns PROVE Watched(q)'
    <3>1. Unstopped(q)' => Unstopped(q)
      BY <1>3 DEF Unstopped
    <3> QED BY <1>3, <3>1, StillWatched DEF LostRuns
  <2>3. \A q \in LaunchRuns : q \in al_mem.stopping \cup al_mem.finalized => al_run[q].stop # "none"
    BY DEF WatchInv, PhaseOK
  <2>4. al_mem.cur = 0 => \A q \in LaunchRuns : al_run[q].phase \notin {"authorized", "started"}
    <3>1. 0 \notin LaunchRuns
      BY LaunchAssumption, FS_CardinalityType
    <3> QED BY <3>1 DEF WatchInv, PhaseOK, InLaunch, CurrentRun
  <2> QED BY <1>3, <2>1, <2>2, <2>3, <2>4, WatchesMove
<1>4. CASE Recover
  <2>1. al_task'.failClosed = al_task.failClosed
    <3>1. \A q \in LaunchRuns : al_run[q].open => al_run[q].call \in Spent
      BY DEF WatchInv, PhaseOK
    <3> QED BY <1>4, <3>1 DEF Recover, CallsInv, Budgets, WatchInv
  <2> QED BY <1>3, <1>4, <2>1 DEF Recover, CurrentRun
<1>5. CASE UNCHANGED alVars
  BY <1>3, <1>5 DEF alVars
<1> QED BY <1>1, <1>2, <1>4, <1>5, TickStep, CrashStep, ResumeStep DEF LaunchNext

LEMMA WatchInitially == LaunchInit => WatchInv
<1> SUFFICES ASSUME LaunchInit PROVE WatchInv
  OBVIOUS
<1>1. 0 \notin LaunchRuns
  BY LaunchAssumption, FS_CardinalityType
<1>2. ~al_task.failClosed /\ al_mem \in Memories
  BY DEF LaunchInit, Memories
<1>3. ASSUME NEW r \in LaunchRuns PROVE PhaseOK(r) /\ Watched(r) /\ Affordable(r)
  BY <1>1 DEF LaunchInit, PhaseOK, Watched, Unstopped, Affordable, InLaunch, CurrentRun
<1> QED BY <1>2, <1>3 DEF WatchInv

\* BudgetController: a process past the limit of its attempt has a stop on record, and so
\* has one past what is left of its task's time, whatever other runs did before it and
\* wherever the program crashed: for any limits, number of runs and calls, and any length
\* of time.
THEOREM OverrunsAreStopped == LaunchSpec => []OverrunIsStopped
<1>1. CallsInv /\ WatchInv => OverrunIsStopped
  <2> SUFFICES ASSUME CallsInv, WatchInv, NEW r \in LaunchRuns,
                      r \in al_mem.followed \ al_mem.ended, al_run[r].open, al_run[r].stop = "none"
               PROVE  /\ LostRuns \subseteq {r} => ~(al_run[r].used > AttemptLimit)
                      /\ LostRuns = {} => ~(TotalUsed > TotalLimit)
    BY DEF OverrunIsStopped
  <2>1. /\ al_run[r].used \in Nat /\ AttemptLimit \in Nat /\ TotalLimit \in Nat /\ TotalUsed \in Nat
        /\ \A t \in al_mem.timers : t[3] \in Nat
    BY LaunchAssumption, TotalTyped DEF WatchInv, CallsInv, CallRows, Memories, Watches
  <2>2. Unstopped(r) /\ Watched(r)
    BY DEF WatchInv, Unstopped
  <2> QED BY <2>1, <2>2 DEF Watched
<1> QED BY <1>1, CallsInit, WatchInitially, CallsStep, WatchStep, PTL DEF LaunchSpec
-----------------------------------------------------------------------------
(* The worker threads (AgentWorkers).  A thread that lives is the current one, or *)
(* the one that the start under way waits for; once the manager is closed none is *)
(* started any more.                                                             *)

Threads == {"none", "waiting", "busy", "settled", "hung", "dead", "gone"}
LiveThreads == {"waiting", "busy", "settled", "hung"}
SessionRows == [state : {"none", "running", "failed", "exited", "terminated"}, persisted : BOOLEAN,
                handler : {"none", "logging", "lost", "done"}, listening : BOOLEAN, watching : BOOLEAN,
                thread : Threads]
AttemptStates == {"none", "active"} \cup Outcomes
TaskRows == [state : {"idle", "running", "interrupted"}, attempt : 0 .. MaxSessions]
Managers == [cur : 0 .. MaxSessions, allowed : BOOLEAN, starting : BOOLEAN,
             prev : 0 .. MaxSessions, started : 0 .. MaxSessions,
             closed : {"no", "closing", "yes"}]

TypedWorkers ==
    /\ aw_sess \in [Sessions -> SessionRows]
    /\ aw_att \in [Sessions -> AttemptStates]
    /\ aw_task \in TaskRows
    /\ aw_mgr \in Managers
    /\ aw_mgr.cur =< aw_mgr.started
    /\ aw_mgr.starting => aw_mgr.prev =< aw_mgr.started /\ aw_mgr.started < MaxSessions
    /\ \A s \in Sessions : s > aw_mgr.started => aw_sess[s].handler = "none"

LiveInv ==
    /\ \A s, t \in Sessions : Live(s) /\ Live(t) => s = t
    /\ aw_mgr.starting => \A s \in Sessions : Live(s) => s = aw_mgr.prev
    /\ ~aw_mgr.starting /\ aw_mgr.closed # "yes" => \A s \in Sessions : Live(s) => s = aw_mgr.cur

WorkersInv == TypedWorkers /\ LiveInv /\ FailedRunIsClosed

\* No thread comes to life, and only started sessions fail.
RowsKept ==
    /\ aw_sess' \in [Sessions -> SessionRows]
    /\ \A s \in Sessions : Live(s)' => Live(s)
    /\ \A s \in Sessions : s > aw_mgr.started => aw_sess'[s].handler = "none"

\* One row of the sessions is edited.
LEMMA SessionRow ==
    ASSUME TypedWorkers, NEW s \in Sessions, NEW row \in SessionRows,
           aw_sess' = [aw_sess EXCEPT ![s] = row],
           row.thread \in LiveThreads => aw_sess[s].thread \in LiveThreads,
           row.handler \in {"none", aw_sess[s].handler} \/ s =< aw_mgr.started
    PROVE  /\ RowsKept /\ aw_sess'[s] = row
           /\ \A q \in Sessions : q # s => aw_sess'[q] = aw_sess[q]
<1>1. /\ aw_sess' \in [Sessions -> SessionRows] /\ aw_sess'[s] = row
      /\ \A q \in Sessions : q # s => aw_sess'[q] = aw_sess[q]
  BY DEF TypedWorkers
<1>2. \A q \in Sessions : Live(q)' => Live(q)
  BY <1>1 DEF Live, LiveThreads
<1>3. \A q \in Sessions : q > aw_mgr.started => aw_sess'[q].handler = "none"
  <2>1. s \in Nat /\ aw_mgr.started \in Nat
    BY WorkersAssumption DEF TypedWorkers, Managers, Sessions
  <2> QED BY <1>1, <2>1 DEF TypedWorkers
<1> QED BY <1>1, <1>2, <1>3 DEF RowsKept

\* A thread that takes a step of its own.
LEMMA ThreadMoves ==
    ASSUME TypedWorkers, NEW s \in Sessions, NEW from \in LiveThreads, NEW to \in Threads,
           Thread(s, from, to)
    PROVE  /\ RowsKept /\ UNCHANGED <<aw_att, aw_task, aw_mgr>>
           /\ \A q \in Sessions : aw_sess'[q].handler = aw_sess[q].handler
<1> DEFINE row == [aw_sess[s] EXCEPT !.thread = to]
<1>1. row \in SessionRows /\ row.handler = aw_sess[s].handler
  BY DEF TypedWorkers, SessionRows
<1>2. aw_sess' = [aw_sess EXCEPT ![s] = row]
  BY DEF Thread
<1>3. aw_sess[s].thread \in LiveThreads /\ UNCHANGED <<aw_att, aw_task, aw_mgr>>
  BY DEF Thread
<1> HIDE DEF row
<1> QED BY <1>1, <1>2, <1>3, SessionRow

\* A failure is noticed: the session is marked once.
LEMMA FailureBegins ==
    ASSUME TypedWorkers, NEW s \in Sessions, s =< aw_mgr.started,
           aw_sess' = BeginFailure(aw_sess, s)
    PROVE  /\ RowsKept
           /\ \A q \in Sessions : aw_sess'[q].handler = "done" => aw_sess[q].handler = "done"
<1>1. CASE aw_sess[s].persisted
  BY <1>1 DEF BeginFailure, RowsKept, TypedWorkers, Live
<1>2. CASE ~aw_sess[s].persisted
  <2> DEFINE row == [aw_sess[s] EXCEPT !.persisted = TRUE, !.state = "failed",
                                       !.watching = FALSE, !.handler = "logging"]
  <2>1. row \in SessionRows /\ row.handler = "logging" /\ row.thread = aw_sess[s].thread
    BY DEF TypedWorkers, SessionRows
  <2>2. aw_sess' = [aw_sess EXCEPT ![s] = row]
    BY <1>2, ZenonT(30) DEF BeginFailure, TypedWorkers
  <2> HIDE DEF row
  <2> QED BY <2>1, <2>2, SessionRow
<1> QED BY <1>1, <1>2

\* Attempts are completed, none is begun.
AttemptsKept ==
    /\ aw_att' \in [Sessions -> AttemptStates]
    /\ \A s \in Sessions : aw_att'[s] = "active" => aw_att[s] = "active"

\* No failure is handled in this step.
FailuresKept == \A s \in Sessions : aw_sess'[s].handler = "done" => aw_sess[s].handler = "done"

LEMMA ThreadsKept == ASSUME TypedWorkers, LiveInv, RowsKept, aw_mgr' = aw_mgr, aw_task' \in TaskRows,
                            AttemptsKept
                     PROVE  TypedWorkers' /\ LiveInv'
<1>1. TypedWorkers'
  BY DEF TypedWorkers, RowsKept, AttemptsKept
<1>2. LiveInv'
  BY DEF RowsKept, LiveInv
<1> QED BY <1>1, <1>2

LEMMA WorkersKept ==
    ASSUME WorkersInv, RowsKept, AttemptsKept, FailuresKept, UNCHANGED <<aw_mgr, aw_task>>
    PROVE  WorkersInv'
<1>1. TypedWorkers' /\ LiveInv'
  BY ThreadsKept DEF WorkersInv, TypedWorkers
<1>2. FailedRunIsClosed'
  BY DEF WorkersInv, FailedRunIsClosed, FailuresKept, AttemptsKept
<1> QED BY <1>1, <1>2 DEF WorkersInv

LEMMA WorkersStep == WorkersInv /\ [WorkersNext]_awVars => WorkersInv'
<1> SUFFICES ASSUME WorkersInv, [WorkersNext]_awVars PROVE WorkersInv'
  OBVIOUS
<1>0. TypedWorkers /\ LiveInv /\ FailedRunIsClosed
  BY DEF WorkersInv
<1>1. ASSUME NEW s \in Sessions,
             ReceiveStartRun(s) \/ FailRun(s) \/ Complain(s) \/ PostGarbled(s) \/ Hang(s)
               \/ Crash(s) \/ \E outcome \in Outcomes : PostRunExited(s, outcome)
      PROVE  WorkersInv'
  <2>1. PICK from \in LiveThreads, to \in Threads : Thread(s, from, to)
    BY <1>1 DEF ReceiveStartRun, FailRun, Complain, PostGarbled, Hang, Crash, PostRunExited,
                LiveThreads, Threads
  <2>2. /\ RowsKept /\ UNCHANGED <<aw_att, aw_task, aw_mgr>>
        /\ \A q \in Sessions : aw_sess'[q].handler = aw_sess[q].handler
    BY <1>0, <2>1, ThreadMoves
  <2>3. AttemptsKept /\ FailuresKept
    BY <1>0, <2>2 DEF TypedWorkers, AttemptsKept, FailuresKept
  <2> QED BY <2>2, <2>3, WorkersKept
<1>2. ASSUME NEW s \in Sessions, OnWorkerMessage(s) PROVE WorkersInv'
  <2>0. s =< aw_mgr.started /\ UNCHANGED <<aw_task, aw_mgr>>
    BY <1>0, <1>2 DEF OnWorkerMessage, Cur, TypedWorkers
  <2>1. CASE UNCHANGED <<aw_sess, aw_att>>
    <3>1. RowsKept /\ AttemptsKept /\ FailuresKept
      BY <1>0, <2>1 DEF TypedWorkers, RowsKept, Live, AttemptsKept, FailuresKept
    <3> QED BY <2>0, <3>1, WorkersKept
  <2>2. CASE aw_sess' = BeginFailure(aw_sess, s) /\ UNCHANGED aw_att
    <3>1. RowsKept /\ FailuresKept
      BY <1>0, <2>0, <2>2, FailureBegins DEF FailuresKept
    <3>2. AttemptsKept
      BY <1>0, <2>2 DEF TypedWorkers, AttemptsKept
    <3> QED BY <2>0, <3>1, <3>2, WorkersKept
  <2>3. ASSUME NEW outcome \in Outcomes, RunExited(s, outcome),
               ~UNCHANGED <<aw_sess, aw_att>>
        PROVE  WorkersInv'
    <3> DEFINE state == IF outcome = "succeeded" THEN "exited" ELSE "failed"
               row == [aw_sess[s] EXCEPT !.watching = FALSE, !.state = state]
    <3>1. aw_att' = MarkCompleted(s, outcome) /\ aw_sess' = [aw_sess EXCEPT ![s] = row]
      BY <2>3 DEF RunExited
    <3>2. row \in SessionRows /\ row.handler = aw_sess[s].handler
                              /\ row.thread = aw_sess[s].thread
      <4>1. state \in {"exited", "failed"}
        OBVIOUS
      <4> HIDE DEF state
      <4> QED BY <1>0, <4>1 DEF TypedWorkers, SessionRows
    <3> HIDE DEF row
    <3>3. RowsKept /\ FailuresKept
      <4>1. /\ RowsKept /\ aw_sess'[s] = row
            /\ \A q \in Sessions : q # s => aw_sess'[q] = aw_sess[q]
        BY <1>0, <3>1, <3>2, SessionRow
      <4> QED BY <3>2, <4>1 DEF FailuresKept
    <3>4. AttemptsKept
      BY <1>0, <3>1 DEF MarkCompleted, TypedWorkers, AttemptStates, Outcomes, AttemptsKept
    <3> QED BY <2>0, <3>3, <3>4, WorkersKept
  <2> QED BY <1>2, <2>1, <2>2, <2>3 DEF OnWorkerMessage, OnExit
<1>3. ASSUME NEW s \in Sessions, HeartbeatTimeout(s) PROVE WorkersInv'
  <2>1. s =< aw_mgr.started /\ UNCHANGED <<aw_att, aw_task, aw_mgr>>
        /\ aw_sess' = BeginFailure(aw_sess, s)
    BY <1>0, <1>3 DEF HeartbeatTimeout, Cur, TypedWorkers
  <2>2. RowsKept /\ FailuresKept
    BY <1>0, <2>1, FailureBegins DEF FailuresKept
  <2>3. AttemptsKept
    BY <1>0, <2>1 DEF TypedWorkers, AttemptsKept
  <2> QED BY <2>1, <2>2, <2>3, WorkersKept
<1>4. ASSUME NEW s \in Sessions, FailureLogged(s) PROVE WorkersInv'
  <2> DEFINE row == [aw_sess[s] EXCEPT !.watching = FALSE, !.listening = FALSE,
                                       !.handler = "done"]
  <2>1. row \in SessionRows /\ row.thread = aw_sess[s].thread
    BY <1>0 DEF TypedWorkers, SessionRows
  <2>2. aw_sess' = [aw_sess EXCEPT ![s] = row] /\ aw_sess[s].handler = "logging"
    BY <1>0, <1>4 DEF FailureLogged, Terminating, TypedWorkers
  <2>3. s =< aw_mgr.started
    BY <1>0, <2>2, WorkersAssumption DEF TypedWorkers, Managers, Sessions
  <2> HIDE DEF row
  <2>4. /\ RowsKept /\ aw_sess'[s] = row
        /\ \A q \in Sessions : q # s => aw_sess'[q] = aw_sess[q]
    BY <1>0, <2>1, <2>2, <2>3, SessionRow
  <2>5. AttemptsKept /\ aw_att'[s] # "active"
    BY <1>0, <1>4
       DEF FailureLogged, MarkCompleted, TypedWorkers, AttemptStates, Outcomes, AttemptsKept
  <2>6. /\ aw_task' \in TaskRows
        /\ ~(aw_task'.state = "running" /\ aw_task'.attempt = s)
        /\ aw_task'.state = "running" => aw_task' = aw_task
        /\ aw_mgr' = aw_mgr
    <3>1. CASE aw_task.state = "running" /\ aw_task.attempt = s
      BY <1>4, <3>1, WorkersAssumption DEF FailureLogged, MoveTaskToRecoverableState, TaskRows
    <3>2. CASE ~(aw_task.state = "running" /\ aw_task.attempt = s)
      BY <1>0, <1>4, <3>2 DEF FailureLogged, MoveTaskToRecoverableState, TypedWorkers
    <3> QED BY <3>1, <3>2
  <2>7. TypedWorkers' /\ LiveInv'
    BY <1>0, <2>4, <2>5, <2>6, ThreadsKept
  <2>8. FailedRunIsClosed'
    BY <1>0, <2>4, <2>5, <2>6 DEF FailedRunIsClosed, AttemptsKept
  <2> QED BY <2>7, <2>8 DEF WorkersInv
<1>14. ASSUME NEW s \in Sessions, FailureUnlogged(s) PROVE WorkersInv'
  <2> DEFINE row == [aw_sess[s] EXCEPT !.handler = "lost"]
  <2>1. row \in SessionRows /\ row.handler = "lost" /\ row.thread = aw_sess[s].thread
    BY <1>0 DEF TypedWorkers, SessionRows
  <2>2. /\ aw_sess' = [aw_sess EXCEPT ![s] = row] /\ aw_sess[s].handler = "logging"
        /\ UNCHANGED <<aw_att, aw_task, aw_mgr>>
    BY <1>14 DEF FailureUnlogged
  <2>3. s =< aw_mgr.started
    BY <1>0, <2>2, WorkersAssumption DEF TypedWorkers, Managers, Sessions
  <2> HIDE DEF row
  <2>4. /\ RowsKept /\ aw_sess'[s] = row
        /\ \A q \in Sessions : q # s => aw_sess'[q] = aw_sess[q]
    BY <1>0, <2>1, <2>2, <2>3, SessionRow
  <2>6. FailuresKept
    BY <2>1, <2>4 DEF FailuresKept
  <2>5. AttemptsKept
    BY <1>0, <2>2 DEF TypedWorkers, AttemptsKept
  <2> QED BY <2>2, <2>4, <2>5, <2>6, WorkersKept
<1>5. ASSUME NEW s \in Sessions, ThreadTerminated(s) PROVE WorkersInv'
  <2> DEFINE row == [aw_sess[s] EXCEPT !.thread = "gone"]
  <2>1. row \in SessionRows /\ row.handler = aw_sess[s].handler /\ row.thread = "gone"
    BY <1>0 DEF TypedWorkers, SessionRows, Threads
  <2>2. aw_sess' = [aw_sess EXCEPT ![s] = row] /\ UNCHANGED <<aw_att, aw_task, aw_mgr>>
    BY <1>5 DEF ThreadTerminated
  <2> HIDE DEF row
  <2>3. RowsKept /\ FailuresKept
    <3>1. /\ RowsKept /\ aw_sess'[s] = row
          /\ \A q \in Sessions : q # s => aw_sess'[q] = aw_sess[q]
      BY <1>0, <2>1, <2>2, SessionRow DEF LiveThreads
    <3> QED BY <2>1, <3>1 DEF FailuresKept
  <2>4. AttemptsKept
    BY <1>0, <2>2 DEF TypedWorkers, AttemptsKept
  <2> QED BY <2>2, <2>3, <2>4, WorkersKept
<1>6. ASSUME NEW s \in Sessions, AllowReplacementAfterReconcile(s) PROVE WorkersInv'
  <2>1. /\ aw_mgr' \in Managers /\ aw_mgr' = [aw_mgr EXCEPT !.allowed = TRUE]
        /\ UNCHANGED <<aw_sess, aw_att, aw_task>>
    BY <1>0, <1>6 DEF AllowReplacementAfterReconcile, TypedWorkers, Managers
  <2>2. /\ aw_mgr'.cur = aw_mgr.cur /\ aw_mgr'.prev = aw_mgr.prev
        /\ aw_mgr'.started = aw_mgr.started /\ aw_mgr'.closed = aw_mgr.closed
        /\ aw_mgr'.starting <=> aw_mgr.starting
    BY <1>0, <2>1 DEF TypedWorkers, Managers
  <2> QED BY <1>0, <2>1, <2>2 DEF WorkersInv, TypedWorkers, LiveInv, FailedRunIsClosed, Live
<1>7. CASE StartRun
  <2>1. /\ aw_mgr' \in Managers /\ aw_mgr'.starting /\ aw_mgr'.prev = aw_mgr.cur
        /\ aw_mgr'.cur = aw_mgr.cur /\ aw_mgr'.started = aw_mgr.started
        /\ aw_mgr.started < MaxSessions /\ ~aw_mgr.starting /\ aw_mgr.closed = "no"
        /\ UNCHANGED <<aw_att, aw_task>>
    BY <1>0, <1>7 DEF StartRun, TypedWorkers, Managers, Cur
  <2>2. /\ RowsKept
        /\ FailuresKept
    <3>1. CASE aw_mgr.cur = 0
      BY <1>0, <1>7, <3>1 DEF StartRun, Cur, RowsKept, TypedWorkers, Live, FailuresKept
    <3>2. CASE aw_mgr.cur # 0
      <4>1. PICK s \in Sessions : s = aw_mgr.cur
        BY <1>0, <3>2, WorkersAssumption DEF TypedWorkers, Managers, Sessions
      <4> DEFINE row == [aw_sess[s] EXCEPT !.watching = FALSE, !.listening = FALSE]
      <4>2. /\ row \in SessionRows /\ row.handler = aw_sess[s].handler
            /\ row.thread = aw_sess[s].thread
        <5>1. aw_sess[s] \in SessionRows
          BY <1>0 DEF TypedWorkers
        <5> QED BY <5>1 DEF SessionRows
      <4>3. aw_sess' = [aw_sess EXCEPT ![s] = row]
        BY <1>0, <1>7, <3>2, <4>1 DEF StartRun, Cur, Terminating, TypedWorkers
      <4> HIDE DEF row
      <4>4. /\ RowsKept /\ aw_sess'[s] = row
            /\ \A q \in Sessions : q # s => aw_sess'[q] = aw_sess[q]
        BY <1>0, <4>2, <4>3, SessionRow
      <4> QED BY <4>2, <4>4 DEF FailuresKept
    <3> QED BY <3>1, <3>2
  <2>3. TypedWorkers'
    BY <1>0, <2>1, <2>2 DEF TypedWorkers, RowsKept
  <2>4. LiveInv'
    BY <1>0, <2>1, <2>2 DEF LiveInv, RowsKept
  <2> QED BY <1>0, <2>1, <2>2, <2>3, <2>4 DEF WorkersInv, FailedRunIsClosed, FailuresKept
<1>8. CASE StartWorker
  <2> DEFINE new == aw_mgr.started + 1
  <2>1. /\ new \in Sessions /\ aw_mgr.started \in Nat /\ aw_mgr.starting
        /\ aw_mgr.prev \in Nat /\ aw_mgr.prev =< aw_mgr.started
    BY <1>0, <1>8, WorkersAssumption DEF StartWorker, TypedWorkers, Managers, Sessions
  <2>2. /\ aw_mgr' \in Managers /\ ~aw_mgr'.starting
        /\ aw_mgr'.started = new /\ aw_mgr'.cur = new
    <3>1. new \in 0 .. MaxSessions /\ 0 \in 0 .. MaxSessions
      BY <2>1, WorkersAssumption DEF Sessions
    <3>2. aw_mgr' = [aw_mgr EXCEPT !.starting = FALSE, !.prev = 0, !.allowed = FALSE,
                                   !.started = new, !.cur = new]
      BY <1>8 DEF StartWorker
    <3> HIDE DEF new
    <3> QED BY <1>0, <3>1, <3>2 DEF TypedWorkers, Managers
  <2>3. /\ aw_sess'[new] = NewSession
        /\ aw_mgr.prev \in Sessions =>
              aw_sess'[aw_mgr.prev] = [aw_sess[aw_mgr.prev] EXCEPT !.state = "terminated"]
        /\ \A q \in Sessions : q \notin {new, aw_mgr.prev} => aw_sess'[q] = aw_sess[q]
        /\ aw_sess' = [q \in Sessions |-> aw_sess'[q]]
    BY <1>8, <2>1 DEF StartWorker
  <2>4. NewSession \in SessionRows /\ NewSession.handler = "none"
    BY DEF NewSession, SessionRows, Threads
  <2>5. \A q \in Sessions : q # new => /\ aw_sess'[q] \in SessionRows
                                       /\ aw_sess'[q].thread = aw_sess[q].thread
                                       /\ aw_sess'[q].handler = aw_sess[q].handler
    BY <1>0, <2>3 DEF TypedWorkers, SessionRows
  <2>6. \A q \in Sessions : ~Live(q)
    <3>1. \A q \in Sessions : Live(q) => q = aw_mgr.prev
      BY <1>0, <2>1 DEF LiveInv
    <3>2. aw_mgr.prev \in Sessions => ~Live(aw_mgr.prev)
      BY <1>8 DEF StartWorker, Terminated, Live, Sessions
    <3> QED BY <3>1, <3>2
  <2>7. \A q \in Sessions : Live(q)' => q = new
    BY <2>5, <2>6 DEF Live
  <2>8. LiveInv'
    BY <2>2, <2>7 DEF LiveInv
  <2>9. /\ aw_att' = [aw_att EXCEPT ![new] = "active"] /\ aw_task' = aw_task
        /\ aw_sess' \in [Sessions -> SessionRows] /\ aw_att' \in [Sessions -> AttemptStates]
    <3>1. aw_att' = [aw_att EXCEPT ![new] = "active"] /\ aw_task' = aw_task
      BY <1>8 DEF StartWorker
    <3>2. \A q \in Sessions : aw_sess'[q] \in SessionRows
      BY <2>3, <2>4, <2>5
    <3>3. aw_sess' \in [Sessions -> SessionRows]
      BY <2>3, <3>2
    <3> QED BY <1>0, <3>1, <3>3 DEF TypedWorkers, AttemptStates
  <2>10. TypedWorkers'
    <3>1. \A q \in Sessions : q > new => q > aw_mgr.started /\ q # new
      BY <2>1 DEF Sessions
    <3> QED BY <1>0, <2>1, <2>2, <2>5, <2>9, <3>1 DEF TypedWorkers
  <2>11. FailedRunIsClosed'
    <3> SUFFICES ASSUME NEW q \in Sessions, aw_sess'[q].handler = "done"
                 PROVE  aw_att'[q] # "active"
                           /\ ~(aw_task'.state = "running" /\ aw_task'.attempt = q)
      BY DEF FailedRunIsClosed
    <3>1. q # new
      BY <2>3, <2>4
    <3>2. aw_att'[q] = aw_att[q] /\ aw_sess[q].handler = "done"
      BY <1>0, <2>5, <2>9, <3>1 DEF TypedWorkers
    <3> QED BY <1>0, <2>9, <3>2 DEF FailedRunIsClosed
  <2> QED BY <2>8, <2>10, <2>11 DEF WorkersInv
<1>9. CASE Close
  <2>1. /\ aw_mgr' \in Managers /\ (aw_mgr'.starting <=> aw_mgr.starting)
        /\ aw_mgr'.prev = aw_mgr.prev /\ aw_mgr'.cur = aw_mgr.cur
        /\ aw_mgr'.started = aw_mgr.started /\ aw_mgr.closed = "no"
        /\ UNCHANGED <<aw_att, aw_task>>
    BY <1>0, <1>9 DEF Close, TypedWorkers, Managers, Cur
  <2>2. /\ RowsKept
        /\ FailuresKept
    <3>1. CASE aw_mgr.cur = 0
      BY <1>0, <1>9, <3>1 DEF Close, Cur, RowsKept, TypedWorkers, Live, FailuresKept
    <3>2. CASE aw_mgr.cur # 0
      <4>1. PICK s \in Sessions : s = aw_mgr.cur
        BY <1>0, <3>2, WorkersAssumption DEF TypedWorkers, Managers, Sessions
      <4> DEFINE row == [aw_sess[s] EXCEPT !.watching = FALSE, !.listening = FALSE,
                                           !.state = "terminated"]
      <4>2. /\ row \in SessionRows /\ row.handler = aw_sess[s].handler
            /\ row.thread = aw_sess[s].thread
        <5>1. aw_sess[s] \in SessionRows
          BY <1>0 DEF TypedWorkers
        <5> QED BY <5>1 DEF SessionRows
      <4>3. aw_sess' = [aw_sess EXCEPT ![s] = row]
        BY <1>0, <1>9, <3>2, <4>1 DEF Close, Cur, Terminating, TypedWorkers
      <4> HIDE DEF row
      <4>4. /\ RowsKept /\ aw_sess'[s] = row
            /\ \A q \in Sessions : q # s => aw_sess'[q] = aw_sess[q]
        BY <1>0, <4>2, <4>3, SessionRow
      <4> QED BY <4>2, <4>4 DEF FailuresKept
    <3> QED BY <3>1, <3>2
  <2>3. TypedWorkers'
    BY <1>0, <2>1, <2>2 DEF TypedWorkers, RowsKept
  <2>4. LiveInv'
    BY <1>0, <2>1, <2>2 DEF LiveInv, RowsKept
  <2> QED BY <1>0, <2>1, <2>2, <2>3, <2>4 DEF WorkersInv, FailedRunIsClosed, FailuresKept
<1>10. CASE CloseEnds
  <2>1. /\ aw_mgr' \in Managers /\ ~aw_mgr'.starting /\ aw_mgr'.closed = "yes"
        /\ aw_mgr'.cur = 0 /\ aw_mgr'.started = aw_mgr.started
        /\ UNCHANGED <<aw_sess, aw_att, aw_task>>
    <3>1. 0 \in 0 .. MaxSessions
      BY WorkersAssumption
    <3> QED BY <1>0, <1>10, <3>1 DEF CloseEnds, TypedWorkers, Managers
  <2>2. 0 =< aw_mgr.started
    BY <1>0, WorkersAssumption DEF TypedWorkers, Managers
  <2>3. TypedWorkers'
    BY <1>0, <2>1, <2>2 DEF TypedWorkers
  <2>4. LiveInv'
    BY <1>0, <2>1 DEF LiveInv, Live
  <2> QED BY <1>0, <2>1, <2>3, <2>4 DEF WorkersInv, FailedRunIsClosed
<1>11. CASE TaskEnters
  <2>1. /\ aw_task' = [state |-> "running", attempt |-> aw_mgr.started + 1]
        /\ aw_mgr.started < MaxSessions /\ aw_mgr.started \in Nat
        /\ UNCHANGED <<aw_sess, aw_att, aw_mgr>>
    BY <1>0, <1>11, WorkersAssumption DEF TaskEnters, TypedWorkers, Managers
  <2>2. aw_task' \in TaskRows /\ aw_task'.attempt = aw_mgr.started + 1
    BY <2>1, WorkersAssumption DEF TaskRows
  <2>3. \A s \in Sessions : s = aw_mgr.started + 1 => aw_sess[s].handler = "none"
    BY <1>0, <2>1 DEF TypedWorkers
  <2> QED BY <1>0, <2>1, <2>2, <2>3 DEF WorkersInv, TypedWorkers, LiveInv, FailedRunIsClosed, Live
<1>12. CASE TaskLeaves
  <2>1. /\ aw_task' = [state |-> "idle", attempt |-> 0]
        /\ UNCHANGED <<aw_sess, aw_att, aw_mgr>>
    BY <1>12 DEF TaskLeaves
  <2>2. aw_task' \in TaskRows /\ aw_task'.state # "running"
    BY <2>1, WorkersAssumption DEF TaskRows
  <2> QED BY <1>0, <2>1, <2>2 DEF WorkersInv, TypedWorkers, LiveInv, FailedRunIsClosed, Live
<1>13. CASE UNCHANGED awVars
  BY <1>0, <1>13 DEF awVars, WorkersInv, TypedWorkers, LiveInv, FailedRunIsClosed, Live
<1> QED BY <1>1, <1>2, <1>3, <1>4, <1>5, <1>6, <1>7, <1>8, <1>9, <1>10, <1>11, <1>12, <1>13, <1>14
        DEF WorkersNext

LEMMA WorkersInitially == WorkersInit => WorkersInv
<1> SUFFICES ASSUME WorkersInit PROVE WorkersInv
  OBVIOUS
<1>1. TypedWorkers
  BY WorkersAssumption
     DEF WorkersInit, TypedWorkers, SessionRows, AttemptStates, Managers, Threads, TaskRows
<1> QED BY <1>1 DEF WorkersInit, WorkersInv, LiveInv, FailedRunIsClosed, Live

LEMMA WorkersSafety == WorkersSpec => []WorkersInv
BY WorkersInitially, WorkersStep, PTL DEF WorkersSpec

\* AgentWorkerManager.startRun: however workers crash, hang, are replaced or closed
\* around a start, at most one thread runs, for any number of sessions.
THEOREM WorkersRunAlone == WorkersSpec => []OneWorker
<1>1. WorkersInv => OneWorker
  <2> SUFFICES ASSUME WorkersInv PROVE OneWorker
    OBVIOUS
  <2> DEFINE live == {s \in Sessions : Live(s)}
  <2>1. \A s, t \in live : s = t
    BY DEF WorkersInv, LiveInv
  <2>2. CASE live = {}
    BY <2>2, FS_EmptySet DEF OneWorker
  <2>3. ASSUME NEW s \in live PROVE OneWorker
    <3>1. live = {s}
      BY <2>1, <2>3
    <3>2. Cardinality(live) = 1
      BY <3>1, FS_Singleton
    <3> QED BY <3>2 DEF OneWorker
  <2> QED BY <2>2, <2>3
<1> QED BY <1>1, WorkersSafety, PTL

\* #handleWorkerFailure: when a failure is handled the attempt is over and the task has
\* moved on, whatever the worker still sent and whoever replaced it meanwhile.
THEOREM FailuresAreClosed == WorkersSpec => []FailedRunIsClosed
<1>1. WorkersInv => FailedRunIsClosed
  BY DEF WorkersInv
<1> QED BY <1>1, WorkersSafety, PTL
-----------------------------------------------------------------------------
(* The program around the agents (AppLifecycle).  An agent that the shutdown has  *)
(* stopped does not run again, the database is closed after that, and the exit is *)
(* authorised after both.  Without a supervisor there is nothing to stop.         *)

Starts == [at : {"database", "budget", "probes", "reconcile", "composed", "failed"},
           mode : {"none", "read-write", "diagnostic"}, supervisor : BOOLEAN,
           screen : {"none", "project", "new_task", "recovery", "run", "review"}]
Lives == [accepting : BOOLEAN, authorised : BOOLEAN]
Flights == [at : Stages, reason : Reasons, failed : BOOLEAN, disposing : {0} \cup Created]
TaskSessions == [runtime : {0} \cup Created, disposing : SUBSET Created]
DrivenTasks == [status : {"none", "creating", "active", "terminal"},
                drive : {"idle", "working", "waiting"},
                agent : {"none", "running", "late", "ended", "stopped"}]
Clis == [at : {"composing", "rendering", "waiting", "blocked", "completed"}, code : 0 .. 2]

TypedApp ==
    /\ ap_start \in Starts
    /\ ap_life \in Lives
    /\ ap_flight \in Flights
    /\ ap_session \in TaskSessions
    /\ ap_task \in [AllTasks -> DrivenTasks]
    /\ ap_cli \in Clis

\* No one works on the task.
Resting(row) == row.drive = "idle" /\ row.agent = "none" /\ row.status # "creating"

\* Nothing is worked on or shut down before the interface is there.
ComposingInv ==
    ap_cli.at = "composing" => /\ ap_flight.at = "idle" /\ ~ap_life.authorised
                               /\ ap_session.disposing = {}
                               /\ \A t \in AllTasks : Resting(ap_task[t])

\* Without a supervisor, no task is worked on.
SupervisorInv ==
    /\ ap_cli.at = "rendering" /\ ap_start.mode = "read-write" => ap_start.supervisor
    /\ ~ap_start.supervisor => \A t \in AllTasks : Resting(ap_task[t])

\* The order of the shutdown.
ShutdownInv ==
    /\ Cleaned \/ ap_db = "closed" => \A t \in AllTasks : ap_task[t].agent # "running"
    /\ ap_flight.at = "authorise" \/ ap_life.authorised => ap_db = "closed"
    /\ ap_cli.at = "completed" /\ ap_start.at = "composed" => ap_life.authorised

AppInv == TypedApp /\ ComposingInv /\ SupervisorInv /\ ShutdownInv

\* The fields of a step's records.
LEMMA AppFields ==
    ASSUME TypedApp
    PROVE  /\ ap_start.at \in {"database", "budget", "probes", "reconcile", "composed", "failed"}
           /\ ap_start.mode \in {"none", "read-write", "diagnostic"}
           /\ ap_start.supervisor \in BOOLEAN
           /\ ap_life.accepting \in BOOLEAN /\ ap_life.authorised \in BOOLEAN
           /\ ap_flight.at \in Stages /\ ap_flight.failed \in BOOLEAN
           /\ ap_session.runtime \in {0} \cup Created
           /\ ap_session.disposing \subseteq Created
           /\ Created \subseteq AllTasks /\ Found \in AllTasks
BY DEF TypedApp, Starts, Lives, Flights, TaskSessions, AllTasks

\* A task is edited.
EditsTask(t, row) == /\ ap_task' \in [AllTasks -> DrivenTasks]
                     /\ ap_task'[t] = row
                     /\ \A q \in AllTasks : q # t => ap_task'[q] = ap_task[q]

LEMMA TaskEdited ==
    ASSUME TypedApp, NEW t \in AllTasks, NEW row \in DrivenTasks,
           ap_task' = [ap_task EXCEPT ![t] = row]
    PROVE  EditsTask(t, row)
BY DEF TypedApp, EditsTask

\* No task is begun and no agent launched.
TasksCalm ==
    /\ ap_task' \in [AllTasks -> DrivenTasks]
    /\ \A t \in AllTasks : /\ ap_task'[t].agent = "running" => ap_task[t].agent = "running"
                           /\ Resting(ap_task[t]) => Resting(ap_task'[t])

LEMMA CalmRow ==
    ASSUME TypedApp, NEW t \in AllTasks, NEW row \in DrivenTasks,
           ap_task' = [ap_task EXCEPT ![t] = row],
           row.agent = "running" => ap_task[t].agent = "running",
           Resting(ap_task[t]) => Resting(row)
    PROVE  TasksCalm
BY TaskEdited DEF EditsTask, TasksCalm

LEMMA StopIsCalm == ASSUME TypedApp, NEW t \in AllTasks, StopAgent(t) PROVE TasksCalm
<1> DEFINE row == [ap_task[t] EXCEPT !.agent = "stopped"]
<1>1. CASE Runs(t)
  <2>1. ap_task[t] \in DrivenTasks /\ ~Resting(ap_task[t]) /\ Runs(t)
    BY <1>1 DEF TypedApp, Runs, Resting
  <2>2. /\ row \in DrivenTasks /\ row.agent = "stopped"
    BY <2>1 DEF DrivenTasks
  <2>3. ap_task' = [ap_task EXCEPT ![t] = row]
    BY <1>1 DEF StopAgent
  <2> HIDE DEF row
  <2> QED BY <2>1, <2>2, <2>3, CalmRow
<1>2. CASE ~Runs(t)
  BY <1>2 DEF StopAgent, TasksCalm, TypedApp
<1> QED BY <1>1, <1>2

\* A call of shutdown begins one, or joins it.
LEMMA ShutdownBegins ==
    ASSUME TypedApp, NEW reason \in Reasons, Shutdown(reason)
    PROVE  /\ ap_flight' \in Flights /\ ap_life' \in Lives
           /\ ap_life'.authorised <=> ap_life.authorised
           /\ ap_flight' = ap_flight \/ ap_flight'.at = "cleanup"
<1>1. CASE ap_flight.at = "idle" /\ ~ap_life.authorised
  <2>1. ap_flight' = [at |-> "cleanup", reason |-> reason, failed |-> FALSE, disposing |-> 0]
    BY <1>1 DEF Shutdown, IdleFlight
  <2>2. ap_flight' \in Flights /\ ap_flight'.at = "cleanup"
    BY <2>1 DEF Flights, Stages
  <2>3. ap_life' \in Lives /\ (ap_life'.authorised <=> ap_life.authorised)
    BY <1>1 DEF Shutdown, TypedApp, Lives
  <2> QED BY <2>2, <2>3
<1>2. CASE ~(ap_flight.at = "idle" /\ ~ap_life.authorised)
  BY <1>2 DEF Shutdown, TypedApp
<1> QED BY <1>1, <1>2

\* The answer to runCli completes it only with the exit authorised.
LEMMA AnswersCli ==
    ASSUME TypedApp, NEW authorised \in BOOLEAN, Answers(authorised)
    PROVE  /\ ap_cli' \in Clis
           /\ ap_cli'.at \in {ap_cli.at, "completed", "blocked"}
           /\ ap_cli'.at # ap_cli.at => ap_cli.at = "waiting"
           /\ ap_cli'.at = "completed" => ap_cli.at = "completed" \/ authorised
<1>1. CASE ap_cli.at # "waiting"
  BY <1>1 DEF Answers, TypedApp
<1>2. CASE ap_cli.at = "waiting" /\ authorised
  BY <1>2 DEF Answers, TypedApp, Clis
<1>3. CASE ap_cli.at = "waiting" /\ ~authorised
  <2>1. ap_cli' = [at |-> "blocked", code |-> 2]
    BY <1>3 DEF Answers
  <2> QED BY <1>3, <2>1 DEF Clis
<1> QED BY <1>1, <1>2, <1>3

\* The interface is there: a composition with a supervisor may write.
LEMMA Composes ==
    ASSUME TypedApp, NEW mode \in {"read-write", "diagnostic"}, NEW supervisor \in BOOLEAN,
           NEW screen \in {"project", "recovery"}, Composed(mode, supervisor, screen)
    PROVE  /\ ap_start' \in Starts /\ ap_start'.mode = mode /\ ap_start'.supervisor = supervisor
           /\ ap_cli' \in Clis /\ ap_cli'.at = "rendering"
<1>1. ap_start' \in Starts /\ ap_start'.mode = mode /\ ap_start'.supervisor = supervisor
  BY DEF Composed, Starts
<1>2. ap_cli' \in Clis /\ ap_cli'.at = "rendering"
  BY DEF Composed, TypedApp, Clis
<1> QED BY <1>1, <1>2


LEMMA ComposingStep ==
    ASSUME AppInv, OpensDatabase \/ ConstructsBudget \/ ProbesCapabilities \/ Reconciles
                       \/ ComposeThrows
    PROVE  AppInv'
<1>0. TypedApp /\ ComposingInv /\ SupervisorInv /\ ShutdownInv
  BY DEF AppInv
<1>1. /\ ap_cli.at = "composing" /\ UNCHANGED <<ap_life, ap_flight, ap_session>>
  BY DEF OpensDatabase, ConstructsBudget, ProbesCapabilities, Reconciles, ComposeThrows, Goes
<1>2. /\ ap_flight.at = "idle" /\ ~ap_life.authorised /\ ap_session.disposing = {}
      /\ \A t \in AllTasks : Resting(ap_task[t])
  BY <1>0, <1>1 DEF ComposingInv
<1>3. /\ ap_start' \in Starts /\ ap_cli' \in Clis
      /\ \/ ap_cli'.at = "composing"
         \/ ap_cli'.at = "rendering" /\ (ap_start'.mode = "read-write" => ap_start'.supervisor)
         \/ ap_cli'.at = "completed" /\ ap_start'.at = "failed"
  <2>1. CASE \E mode \in {"read-write", "diagnostic"}, supervisor \in BOOLEAN,
                screen \in {"project", "recovery"} :
                   /\ Composed(mode, supervisor, screen)
                   /\ mode = "read-write" => supervisor
    BY <1>0, <2>1, Composes
  <2>2. CASE UNCHANGED ap_cli /\ ap_start' \in Starts
    BY <1>0, <1>1, <2>2 DEF TypedApp
  <2>3. CASE ComposeThrows
    BY <1>0, <2>3 DEF ComposeThrows, TypedApp, Starts, Clis
  <2>4. CASE OpensDatabase
    BY <1>0, <2>1, <2>2, <2>4 DEF OpensDatabase, TypedApp, Starts
  <2>5. CASE ConstructsBudget
    BY <1>0, <2>1, <2>2, <2>5 DEF ConstructsBudget, TypedApp, Starts
  <2>6. CASE ProbesCapabilities
    BY <1>0, <2>1, <2>2, <2>6 DEF ProbesCapabilities, TypedApp, Starts
  <2>7. CASE Reconciles
    BY <2>1, <2>7 DEF Reconciles
  <2> QED BY <2>3, <2>4, <2>5, <2>6, <2>7
<1>4. ap_task' \in [AllTasks -> DrivenTasks] /\ \A t \in AllTasks : Resting(ap_task'[t])
  <2>1. CASE UNCHANGED ap_task
    BY <1>0, <1>2, <2>1 DEF TypedApp
  <2>2. CASE ap_task' = [ap_task EXCEPT ![Found].status = "active"]
    <3> DEFINE row == [ap_task[Found] EXCEPT !.status = "active"]
    <3>1. ap_task[Found] \in DrivenTasks /\ Resting(ap_task[Found]) /\ Found \in AllTasks
      BY <1>0, <1>2 DEF TypedApp, AllTasks
    <3>2. row \in DrivenTasks /\ Resting(row)
      BY <3>1 DEF DrivenTasks, Resting
    <3>3. ap_task' = [ap_task EXCEPT ![Found] = row]
      BY <2>2
    <3> HIDE DEF row
    <3>4. EditsTask(Found, row)
      BY <1>0, <3>1, <3>2, <3>3, TaskEdited
    <3> QED BY <1>2, <3>2, <3>4 DEF EditsTask
  <2> QED BY <2>1, <2>2
          DEF OpensDatabase, ConstructsBudget, ProbesCapabilities, Reconciles, ComposeThrows
<1>5. \A t \in AllTasks : ap_task'[t].agent # "running"
  BY <1>4 DEF Resting
<1>6. TypedApp' /\ ComposingInv'
  BY <1>0, <1>1, <1>2, <1>3, <1>4 DEF TypedApp, ComposingInv
<1>7. SupervisorInv'
  BY <1>3, <1>4 DEF SupervisorInv
<1>8. ShutdownInv'
  BY <1>1, <1>2, <1>3, <1>5 DEF ShutdownInv
<1> QED BY <1>6, <1>7, <1>8 DEF AppInv

\* Work on a task, and the commands: the shutdown and runCli stay.
LEMMA CalmStep ==
    ASSUME AppInv, TasksCalm, UNCHANGED <<ap_db, ap_life, ap_flight, ap_cli>>,
           ap_session' \in TaskSessions, ap_start' \in Starts,
           ap_start'.at = ap_start.at /\ ap_start'.mode = ap_start.mode,
           ap_start'.supervisor = ap_start.supervisor,
           ap_cli.at = "composing" => ap_session' = ap_session
    PROVE  AppInv'
<1>1. TypedApp' /\ ComposingInv'
  BY DEF AppInv, TypedApp, ComposingInv, TasksCalm
<1>2. SupervisorInv'
  BY DEF AppInv, SupervisorInv, TasksCalm
<1>3. ShutdownInv'
  BY DEF AppInv, ShutdownInv, TasksCalm, Cleaned
<1> QED BY <1>1, <1>2, <1>3 DEF AppInv

LEMMA DriveStep ==
    ASSUME AppInv, NEW t \in AllTasks, LaunchesAgent(t) \/ AgentExits(t) \/ Records(t) \/ DriveEnds(t)
    PROVE  AppInv'
<1>0. TypedApp /\ ComposingInv /\ SupervisorInv /\ ShutdownInv
  BY DEF AppInv
<1>1. /\ ap_task[t] \in DrivenTasks /\ ~Resting(ap_task[t])
      /\ UNCHANGED <<ap_db, ap_life, ap_flight, ap_session, ap_cli>>
  BY <1>0 DEF TypedApp, Resting, LaunchesAgent, AgentExits, Records, DriveEnds, Runs
<1>2. CASE LaunchesAgent(t)
  <2> DEFINE agent == IF AfterCleanup THEN "late" ELSE "running"
             row == [ap_task[t] EXCEPT !.drive = "waiting", !.agent = agent]
  <2>1. /\ agent \in {"late", "running"} /\ (agent = "running" => ~AfterCleanup)
        /\ ap_db = "open" /\ UNCHANGED ap_start
        /\ ap_task' = [ap_task EXCEPT ![t] = row]
    BY <1>0, <1>2 DEF LaunchesAgent, TypedApp
  <2> HIDE DEF agent
  <2>2. row \in DrivenTasks /\ row.agent = agent
    BY <1>1, <2>1 DEF DrivenTasks
  <2> HIDE DEF row
  <2>3. EditsTask(t, row)
    BY <1>0, <2>1, <2>2, TaskEdited
  <2>4. TypedApp'
    BY <1>0, <1>1, <2>1, <2>3 DEF TypedApp, EditsTask
  <2>5. ComposingInv' /\ SupervisorInv'
    BY <1>0, <1>1, <2>1, <2>3 DEF ComposingInv, SupervisorInv, EditsTask
  <2>6. ShutdownInv'
    BY <1>0, <1>1, <2>1, <2>2, <2>3 DEF ShutdownInv, EditsTask, AfterCleanup, Cleaned
  <2> QED BY <2>4, <2>5, <2>6 DEF AppInv
<1>3. CASE AgentExits(t)
  <2> DEFINE row == [ap_task[t] EXCEPT !.agent = "ended"]
  <2>1. row \in DrivenTasks /\ row.agent = "ended"
    BY <1>1 DEF DrivenTasks
  <2>2. ap_task' = [ap_task EXCEPT ![t] = row] /\ UNCHANGED ap_start
    BY <1>3 DEF AgentExits
  <2> HIDE DEF row
  <2>3. TasksCalm
    BY <1>0, <1>1, <2>1, <2>2, CalmRow
  <2> QED BY <1>0, <1>1, <2>2, <2>3, CalmStep DEF TypedApp
<1>4. CASE Records(t)
  <2> DEFINE row == [ap_task[t] EXCEPT !.drive = "working", !.agent = "none"]
  <2>1. row \in DrivenTasks /\ row.agent = "none"
    BY <1>1 DEF DrivenTasks
  <2>2. ap_task' = [ap_task EXCEPT ![t] = row] /\ UNCHANGED ap_start
    BY <1>4 DEF Records
  <2> HIDE DEF row
  <2>3. TasksCalm
    BY <1>0, <1>1, <2>1, <2>2, CalmRow
  <2> QED BY <1>0, <1>1, <2>2, <2>3, CalmStep DEF TypedApp
<1>5. CASE DriveEnds(t)
  <2>1. PICK status \in {ap_task[t].status} \cup {"terminal"} :
           /\ ap_task' = [ap_task EXCEPT ![t] = [[ap_task[t] EXCEPT !.drive = "idle", !.agent = "none"]
                                                   EXCEPT !.status = status]]
           /\ \/ UNCHANGED ap_start
              \/ \E screen \in {"review", "recovery", "run"} :
                    ap_start' = [ap_start EXCEPT !.screen = screen]
    BY <1>5 DEF DriveEnds
  <2>2. /\ ap_start' \in Starts
        /\ ap_start'.at = ap_start.at /\ ap_start'.mode = ap_start.mode
        /\ ap_start'.supervisor = ap_start.supervisor
    BY <1>0, <2>1 DEF TypedApp, Starts
  <2> DEFINE row == [[ap_task[t] EXCEPT !.drive = "idle", !.agent = "none"] EXCEPT !.status = status]
  <2>3. row \in DrivenTasks /\ row.agent = "none"
    BY <1>1, <2>1 DEF DrivenTasks
  <2> HIDE DEF row
  <2>4. TasksCalm
    BY <1>0, <1>1, <2>1, <2>3, CalmRow DEF row
  <2> QED BY <1>0, <1>1, <2>2, <2>4, CalmStep DEF TypedApp
<1> QED BY <1>2, <1>3, <1>4, <1>5

\* A task is taken up, with the supervisor there.
LEMMA WorkStep ==
    ASSUME AppInv, NEW t \in AllTasks, NEW row \in DrivenTasks,
           ap_task' = [ap_task EXCEPT ![t] = row],
           row.agent = "running" => ap_task[t].agent = "running",
           ap_start.supervisor, ap_cli.at # "composing",
           UNCHANGED <<ap_db, ap_life, ap_flight, ap_cli>>,
           ap_session' \in TaskSessions, ap_start' \in Starts,
           ap_start'.at = ap_start.at, ap_start'.mode = ap_start.mode,
           ap_start'.supervisor = ap_start.supervisor
    PROVE  AppInv'
<1>1. EditsTask(t, row)
  BY TaskEdited DEF AppInv
<1>2. TypedApp' /\ ComposingInv' /\ SupervisorInv'
  BY <1>1 DEF AppInv, TypedApp, ComposingInv, SupervisorInv, EditsTask
<1>3. ShutdownInv'
  BY <1>1 DEF AppInv, ShutdownInv, EditsTask, Cleaned
<1> QED BY <1>2, <1>3 DEF AppInv

LEMMA CommandStep ==
    ASSUME AppInv, SelectsProject \/ ContinuesTask \/ RecoversTask
                       \/ \E t \in Created : CreatesTask(t) \/ RuntimeCreated(t)
    PROVE  AppInv'
<1>0. TypedApp /\ ComposingInv /\ SupervisorInv /\ ShutdownInv /\ Created \subseteq AllTasks
  BY DEF AppInv, AllTasks
<1>1. UNCHANGED <<ap_db, ap_life, ap_flight, ap_cli>>
  BY DEF SelectsProject, ContinuesTask, RecoversTask, CreatesTask, RuntimeCreated
<1>2. Accepts => ap_start.supervisor /\ ap_cli.at # "composing"
  BY <1>0 DEF Accepts, Rendering, SupervisorInv
<1>3. CASE SelectsProject
  <2>1. /\ ap_start' \in Starts /\ ap_session' \in TaskSessions /\ UNCHANGED ap_task
        /\ ap_start'.at = ap_start.at /\ ap_start'.mode = ap_start.mode
        /\ ap_start'.supervisor = ap_start.supervisor /\ ap_cli.at # "composing"
    BY <1>0, <1>2, <1>3 DEF SelectsProject, TypedApp, Starts, TaskSessions
  <2>2. TasksCalm
    BY <1>0, <2>1 DEF TasksCalm, TypedApp
  <2> QED BY <1>0, <1>1, <2>1, <2>2, CalmStep
<1>4. CASE ContinuesTask
  <2> DEFINE t == ap_session.runtime
             row == [ap_task[t] EXCEPT !.drive = "working"]
  <2>1. /\ Accepts /\ t \in AllTasks /\ ap_task' = [ap_task EXCEPT ![t] = row]
        /\ UNCHANGED <<ap_start, ap_session>>
    BY <1>0, <1>4 DEF ContinuesTask, TypedApp, TaskSessions, AllTasks
  <2> HIDE DEF t
  <2>2. row \in DrivenTasks /\ row.agent = ap_task[t].agent
    BY <1>0, <2>1 DEF TypedApp, DrivenTasks
  <2> HIDE DEF row
  <2> QED BY <1>0, <1>1, <1>2, <2>1, <2>2, WorkStep DEF TypedApp
<1>5. CASE RecoversTask
  <2>1. ap_task[Found] \in DrivenTasks /\ Accepts /\ Found \in AllTasks /\ UNCHANGED ap_session
    BY <1>0, <1>5 DEF RecoversTask, TypedApp, AllTasks
  <2>2. CASE ap_task' = [ap_task EXCEPT ![Found].drive = "working"] /\ UNCHANGED ap_start
    <3> DEFINE row == [ap_task[Found] EXCEPT !.drive = "working"]
    <3>1. row \in DrivenTasks /\ row.agent = ap_task[Found].agent
      BY <2>1 DEF DrivenTasks
    <3>2. ap_task' = [ap_task EXCEPT ![Found] = row]
      BY <2>2
    <3> HIDE DEF row
    <3> QED BY <1>0, <1>1, <1>2, <2>1, <2>2, <3>1, <3>2, WorkStep DEF TypedApp
  <2>3. CASE /\ ap_task' = [ap_task EXCEPT ![Found].status = "terminal"]
             /\ ap_start' = [ap_start EXCEPT !.screen = "review"]
    <3> DEFINE row == [ap_task[Found] EXCEPT !.status = "terminal"]
    <3>1. row \in DrivenTasks /\ row.agent = ap_task[Found].agent
      BY <2>1 DEF DrivenTasks
    <3>2. /\ ap_start' \in Starts /\ ap_start'.at = ap_start.at
          /\ ap_start'.mode = ap_start.mode /\ ap_start'.supervisor = ap_start.supervisor
      BY <1>0, <2>3 DEF TypedApp, Starts
    <3>3. ap_task' = [ap_task EXCEPT ![Found] = row]
      BY <2>3
    <3> HIDE DEF row
    <3> QED BY <1>0, <1>1, <1>2, <2>1, <3>1, <3>2, <3>3, WorkStep DEF TypedApp
  <2> QED BY <1>5, <2>2, <2>3 DEF RecoversTask
<1>6. ASSUME NEW t \in Created, CreatesTask(t) PROVE AppInv'
  <2> DEFINE row == [ap_task[t] EXCEPT !.status = "creating"]
  <2>1. row \in DrivenTasks /\ row.agent = ap_task[t].agent /\ t \in AllTasks
    BY <1>0, <1>6 DEF TypedApp, DrivenTasks
  <2>2. Accepts /\ ap_task' = [ap_task EXCEPT ![t] = row] /\ UNCHANGED ap_start
    BY <1>6 DEF CreatesTask
  <2>3. ap_session' \in TaskSessions
    BY <1>0, <1>6 DEF CreatesTask, TypedApp, TaskSessions
  <2> HIDE DEF row
  <2> QED BY <1>0, <1>1, <1>2, <2>1, <2>2, <2>3, WorkStep DEF TypedApp
<1>7. ASSUME NEW t \in Created, RuntimeCreated(t) PROVE AppInv'
  <2>1. /\ ap_task[t] \in DrivenTasks /\ t \in AllTasks /\ ~Resting(ap_task[t])
        /\ UNCHANGED ap_start
    BY <1>0, <1>7 DEF RuntimeCreated, TypedApp, Resting
  <2>2. ap_start.supervisor /\ ap_cli.at # "composing"
    BY <1>0, <2>1 DEF ComposingInv, SupervisorInv
  <2>3. PICK row \in DrivenTasks :
           row.agent = ap_task[t].agent /\ ap_task' = [ap_task EXCEPT ![t] = row]
    <3>1. CASE ap_task' = [ap_task EXCEPT ![t].status = "active", ![t].drive = "working"]
      <4> DEFINE row == [ap_task[t] EXCEPT !.status = "active", !.drive = "working"]
      <4>1. row \in DrivenTasks /\ row.agent = ap_task[t].agent
        BY <2>1 DEF DrivenTasks
      <4>2. ap_task' = [ap_task EXCEPT ![t] = row]
        BY <1>0, <2>1, <3>1 DEF TypedApp
      <4> HIDE DEF row
      <4> QED BY <4>1, <4>2
    <3>2. CASE ap_task' = [ap_task EXCEPT ![t].status = "terminal"]
      <4> DEFINE row == [ap_task[t] EXCEPT !.status = "terminal"]
      <4>1. row \in DrivenTasks /\ row.agent = ap_task[t].agent
        BY <2>1 DEF DrivenTasks
      <4>2. ap_task' = [ap_task EXCEPT ![t] = row]
        BY <3>2
      <4> HIDE DEF row
      <4> QED BY <4>1, <4>2
    <3> QED BY <1>7, <3>1, <3>2 DEF RuntimeCreated
  <2>4. ap_session' \in TaskSessions
    BY <1>0, <1>7 DEF RuntimeCreated, TypedApp, TaskSessions
  <2> QED BY <1>0, <1>1, <2>1, <2>2, <2>3, <2>4, WorkStep DEF TypedApp
<1> QED BY <1>3, <1>4, <1>5, <1>6, <1>7

\* A shutdown is asked for: no more changes than that.
LEMMA AskStep ==
    ASSUME AppInv, NEW reason \in Reasons,
           Shutdown(reason) \/ UNCHANGED <<ap_flight, ap_life>>,
           ap_cli.at # "composing", ap_cli' \in Clis, ap_cli'.at # "composing",
           ap_cli'.at \in {"rendering", "completed"} =>
               ap_cli'.at = ap_cli.at \/ (ap_cli'.at = "completed" /\ ap_life.authorised),
           TasksCalm, ap_session' \in TaskSessions, UNCHANGED <<ap_start, ap_db>>
    PROVE  AppInv'
<1>0. TypedApp /\ ComposingInv /\ SupervisorInv /\ ShutdownInv
  BY DEF AppInv
<1>1. /\ ap_flight' \in Flights /\ ap_life' \in Lives
      /\ ap_life'.authorised <=> ap_life.authorised
      /\ ap_flight' = ap_flight \/ ap_flight'.at = "cleanup"
  BY <1>0, ShutdownBegins DEF TypedApp
<1>2. TypedApp' /\ ComposingInv' /\ SupervisorInv'
  BY <1>0, <1>1 DEF TypedApp, ComposingInv, SupervisorInv, TasksCalm
<1>3. ShutdownInv'
  BY <1>0, <1>1 DEF ShutdownInv, TasksCalm, Cleaned
<1> QED BY <1>2, <1>3 DEF AppInv

LEMMA AskingStep ==
    ASSUME AppInv, RequestsExit \/ ConfirmsTermination \/ RenderEnds
                       \/ \E t \in Created : SessionReleased(t)
    PROVE  AppInv'
<1>0. TypedApp /\ ComposingInv /\ Created \subseteq AllTasks
  BY DEF AppInv, AllTasks
<1>1. UNCHANGED <<ap_start, ap_db>> /\ ap_session \in TaskSessions /\ ap_cli \in Clis
  BY <1>0 DEF RequestsExit, ConfirmsTermination, RenderEnds, SessionReleased, TypedApp
<1>2. UNCHANGED ap_task => TasksCalm
  BY <1>0 DEF TasksCalm, TypedApp
<1>3. {"REQUEST_EXIT", "CONFIRM_TERMINATION", "cli_render_ended"} \subseteq Reasons
  BY DEF Reasons
<1>4. CASE RequestsExit
  <2>1. ap_cli.at = "rendering" /\ Shutdown("REQUEST_EXIT") /\ UNCHANGED <<ap_session, ap_task, ap_cli>>
    BY <1>4 DEF RequestsExit, Rendering
  <2> QED BY <1>1, <1>2, <1>3, <2>1, AskStep
<1>5. CASE ConfirmsTermination
  <2>1. /\ ap_cli.at = "rendering" /\ UNCHANGED <<ap_task, ap_cli>>
        /\ Shutdown("CONFIRM_TERMINATION") \/ UNCHANGED <<ap_flight, ap_life>>
    BY <1>5 DEF ConfirmsTermination, Rendering
  <2>2. ap_session' \in TaskSessions
    BY <1>0, <1>5 DEF ConfirmsTermination, TypedApp, TaskSessions
  <2> QED BY <1>1, <1>2, <1>3, <2>1, <2>2, AskStep
<1>6. CASE RenderEnds
  <2>1. /\ ap_cli.at = "rendering" /\ UNCHANGED <<ap_task, ap_session>>
        /\ Shutdown("cli_render_ended") \/ UNCHANGED <<ap_flight, ap_life>>
    BY <1>6 DEF RenderEnds, Rendering
  <2>2. /\ ap_cli' \in Clis
        /\ \/ ap_cli'.at = "waiting"
           \/ ap_cli'.at = "completed" /\ ap_life.authorised
    <3>1. PICK code \in {0, 1} :
             \/ ap_cli' = [at |-> "completed", code |-> code] /\ ap_life.authorised
             \/ ap_cli' = [at |-> "waiting", code |-> code]
      BY <1>6 DEF RenderEnds
    <3>2. code \in 0 .. 2
      OBVIOUS
    <3>3. CASE ap_cli' = [at |-> "completed", code |-> code] /\ ap_life.authorised
      BY <3>2, <3>3 DEF Clis
    <3>4. CASE ap_cli' = [at |-> "waiting", code |-> code]
      BY <3>2, <3>4 DEF Clis
    <3> QED BY <3>1, <3>3, <3>4
  <2> QED BY <1>1, <1>2, <1>3, <2>1, <2>2, AskStep
<1>7. ASSUME NEW t \in Created, SessionReleased(t) PROVE AppInv'
  <2>1. /\ ap_cli.at # "composing" /\ UNCHANGED ap_cli /\ StopAgent(t) /\ t \in AllTasks
        /\ Shutdown("CONFIRM_TERMINATION") \/ UNCHANGED <<ap_flight, ap_life>>
    BY <1>0, <1>7 DEF SessionReleased, ComposingInv
  <2>2. ap_session' \in TaskSessions
    BY <1>0, <1>7 DEF SessionReleased, TypedApp, TaskSessions
  <2>3. TasksCalm
    BY <1>0, <2>1, StopIsCalm
  <2> QED BY <1>1, <1>3, <2>1, <2>2, <2>3, AskStep
<1> QED BY <1>4, <1>5, <1>6, <1>7

\* A stage of the shutdown ends: its order is kept, and nothing else is taken up.
LEMMA StageStep ==
    ASSUME AppInv, ap_flight.at # "idle", TasksCalm, ap_session' \in TaskSessions,
           ap_flight' \in Flights, ap_life' \in Lives, UNCHANGED ap_start,
           ap_cli' \in Clis, ap_cli'.at \in {ap_cli.at, "completed", "blocked"},
           ShutdownInv'
    PROVE  AppInv'
<1>0. TypedApp /\ ComposingInv /\ SupervisorInv
  BY DEF AppInv
<1>1. ap_cli.at # "composing"
  BY <1>0 DEF ComposingInv
<1>2. TypedApp' /\ ComposingInv' /\ SupervisorInv'
  BY <1>0, <1>1 DEF TypedApp, ComposingInv, SupervisorInv, TasksCalm
<1> QED BY <1>2 DEF AppInv

LEMMA Refusal ==
    ASSUME TypedApp, Refuses
    PROVE  /\ ap_flight' \in Flights /\ ap_flight'.at = "idle" /\ ap_cli' \in Clis
           /\ ap_cli'.at \in {ap_cli.at, "blocked"}
<1>1. ap_flight' \in Flights /\ ap_flight'.at = "idle"
  BY DEF Refuses, IdleFlight, Flights, Stages, Reasons
<1>2. ap_cli' \in Clis /\ ap_cli'.at \in {ap_cli.at, "completed", "blocked"}
      /\ (ap_cli'.at = "completed" => ap_cli.at = "completed")
  BY AnswersCli DEF Refuses
<1> QED BY <1>1, <1>2

LEMMA ShuttingStep ==
    ASSUME AppInv, \/ FindsRuns \/ (\E t \in AllTasks : EndsRun(t)) \/ CleansUp \/ ClosesWorkers
                   \/ WorkersClosed \/ ClosesDatabase \/ AuthorisesExit
    PROVE  AppInv'
<1>0. /\ TypedApp /\ ComposingInv /\ SupervisorInv /\ ShutdownInv /\ Created \subseteq AllTasks
      /\ ap_session \in TaskSessions /\ ap_life \in Lives /\ ap_cli \in Clis
      /\ ap_flight \in Flights
  BY DEF AppInv, AllTasks, TypedApp
<1>1. UNCHANGED ap_task => TasksCalm
  BY <1>0 DEF TasksCalm, TypedApp
<1>2. CASE CleansUp
  <2>0. ap_flight.at = "stopping" /\ UNCHANGED <<ap_start, ap_db, ap_life, ap_session, ap_task>>
    BY <1>2 DEF CleansUp
  <2>1. CASE Refuses
    <3>1. /\ ap_flight' \in Flights /\ ap_flight'.at = "idle" /\ ap_cli' \in Clis
          /\ ap_cli'.at \in {ap_cli.at, "blocked"}
      BY <1>0, <2>1, Refusal
    <3>2. ShutdownInv'
      BY <1>0, <2>0, <2>1, <3>1 DEF ShutdownInv, Cleaned
    <3> QED BY <1>0, <1>1, <2>0, <2>1, <3>1, <3>2, StageStep
  <2>2. CASE /\ ap_flight' = [ap_flight EXCEPT !.at = "close_workers", !.failed = FALSE]
             /\ UNCHANGED ap_cli
             /\ ap_start.supervisor => \A t \in AllTasks : ap_task[t].agent # "running"
    <3>1. ap_flight' \in Flights /\ ap_flight'.at = "close_workers"
      BY <1>0, <2>2 DEF Flights, Stages
    <3>2. \A t \in AllTasks : ap_task[t].agent # "running"
      BY <1>0, <2>2 DEF SupervisorInv, Resting
    <3>3. ShutdownInv'
      BY <1>0, <2>0, <2>2, <3>1, <3>2 DEF ShutdownInv
    <3> QED BY <1>0, <1>1, <2>0, <2>2, <3>1, <3>3, StageStep
  <2> QED BY <1>2, <2>1, <2>2 DEF CleansUp, HandlesMayClose
<1>7. CASE FindsRuns
  <2>1. /\ ap_flight.at = "cleanup"
        /\ UNCHANGED <<ap_start, ap_db, ap_life, ap_session, ap_task, ap_cli>>
        /\ ap_flight' \in Flights /\ ap_flight'.at = "stopping"
    BY <1>0, <1>7 DEF FindsRuns, Flights, Stages
  <2>2. ShutdownInv'
    BY <1>0, <2>1 DEF ShutdownInv, Cleaned
  <2> QED BY <1>0, <1>1, <2>1, <2>2, StageStep
<1>8. ASSUME NEW t \in AllTasks, EndsRun(t) PROVE AppInv'
  <2>1. /\ ap_flight.at = "stopping" /\ StopAgent(t)
        /\ UNCHANGED <<ap_start, ap_db, ap_life, ap_flight, ap_session, ap_cli>>
    BY <1>8 DEF EndsRun
  <2>2. TasksCalm
    BY <1>0, <2>1, StopIsCalm
  <2>3. ShutdownInv'
    BY <1>0, <2>1, <2>2 DEF ShutdownInv, Cleaned, TasksCalm
  <2> QED BY <1>0, <2>1, <2>2, <2>3, StageStep
<1>3. CASE ClosesWorkers
  <2>1. /\ ap_flight.at = "close_workers" /\ UNCHANGED <<ap_start, ap_db, ap_life, ap_task, ap_cli>>
        /\ ap_session' \in TaskSessions
    BY <1>0, <1>3 DEF ClosesWorkers, TaskSessions
  <2>2. ap_flight' \in Flights /\ ap_flight'.at = "disposing"
    BY <1>0, <1>3 DEF ClosesWorkers, TaskSessions, Flights, Stages
  <2>3. ShutdownInv'
    BY <1>0, <2>1, <2>2 DEF ShutdownInv, Cleaned
  <2> QED BY <1>0, <1>1, <2>1, <2>2, <2>3, StageStep
<1>4. CASE WorkersClosed
  <2>1. /\ ap_flight.at = "disposing" /\ UNCHANGED <<ap_start, ap_db, ap_life, ap_session, ap_cli>>
    BY <1>4 DEF WorkersClosed
  <2>2. ap_flight' \in Flights /\ ap_flight'.at = "close_database"
    <3>1. PICK ok \in BOOLEAN : ap_flight' = [ap_flight EXCEPT !.at = "close_database",
                                                               !.disposing = 0,
                                                               !.failed = @ \/ ~ok]
      BY <1>4 DEF WorkersClosed
    <3> QED BY <1>0, <3>1 DEF Flights, Stages
  <2>3. TasksCalm
    <3>1. CASE ap_flight.disposing = 0
      BY <1>1, <1>4, <3>1 DEF WorkersClosed
    <3>2. CASE ap_flight.disposing # 0
      <4>1. ap_flight.disposing \in AllTasks /\ StopAgent(ap_flight.disposing)
        BY <1>0, <1>4, <3>2 DEF WorkersClosed, Flights
      <4> QED BY <1>0, <4>1, StopIsCalm
    <3> QED BY <3>1, <3>2
  <2>4. ShutdownInv'
    BY <1>0, <2>1, <2>2, <2>3 DEF ShutdownInv, Cleaned, TasksCalm
  <2> QED BY <1>0, <2>1, <2>2, <2>3, <2>4, StageStep
<1>5. CASE ClosesDatabase
  <2>1. /\ ap_flight.at = "close_database" /\ UNCHANGED <<ap_start, ap_life, ap_session, ap_task>>
        /\ ap_db' = "closed"
    BY <1>5 DEF ClosesDatabase
  <2>2. /\ ap_flight' \in Flights /\ ap_cli' \in Clis
        /\ ap_cli'.at \in {ap_cli.at, "blocked"}
    <3>1. CASE ap_flight.failed
      BY <1>0, <1>5, <3>1, Refusal DEF ClosesDatabase
    <3>2. CASE ~ap_flight.failed
      BY <1>0, <1>5, <3>2 DEF ClosesDatabase, Flights, Stages
    <3> QED BY <3>1, <3>2
  <2>3. ShutdownInv'
    BY <1>0, <2>1, <2>2 DEF ShutdownInv, Cleaned
  <2> QED BY <1>0, <1>1, <2>1, <2>2, <2>3, StageStep
<1>6. CASE AuthorisesExit
  <2>1. /\ ap_flight.at = "authorise" /\ UNCHANGED <<ap_start, ap_db, ap_session, ap_task>>
        /\ ap_db = "closed"
    BY <1>0, <1>6 DEF AuthorisesExit, ShutdownInv
  <2>2. CASE /\ ap_life' = [ap_life EXCEPT !.authorised = TRUE]
             /\ ap_flight' = IdleFlight /\ Answers(TRUE)
    <3>1. ap_life' \in Lives /\ ap_life'.authorised
      BY <1>0, <2>2 DEF Lives
    <3>2. ap_flight' \in Flights /\ ap_flight'.at = "idle"
      BY <2>2 DEF IdleFlight, Flights, Stages, Reasons
    <3>3. ap_cli' \in Clis /\ ap_cli'.at \in {ap_cli.at, "completed", "blocked"}
      BY <1>0, <2>2, AnswersCli
    <3>4. ShutdownInv'
      BY <1>0, <2>1, <3>1, <3>2 DEF ShutdownInv, Cleaned
    <3> QED BY <1>0, <1>1, <2>1, <3>1, <3>2, <3>3, <3>4, StageStep
  <2>3. CASE Refuses /\ UNCHANGED ap_life
    <3>1. /\ ap_flight' \in Flights /\ ap_flight'.at = "idle" /\ ap_cli' \in Clis
          /\ ap_cli'.at \in {ap_cli.at, "blocked"}
      BY <1>0, <2>3, Refusal
    <3>2. ShutdownInv'
      BY <1>0, <2>1, <2>3, <3>1 DEF ShutdownInv, Cleaned
    <3> QED BY <1>0, <1>1, <2>1, <2>3, <3>1, <3>2, StageStep
  <2> QED BY <1>6, <2>2, <2>3 DEF AuthorisesExit
<1> QED BY <1>2, <1>3, <1>4, <1>5, <1>6, <1>7, <1>8

LEMMA RetryStep == ASSUME AppInv, RetriesShutdown PROVE AppInv'
<1>0. TypedApp /\ ComposingInv /\ SupervisorInv /\ ShutdownInv
  BY DEF AppInv
<1>1. /\ ap_cli.at = "blocked" /\ ap_cli' \in Clis /\ ap_cli'.at = "waiting"
      /\ ap_life' \in Lives /\ ~ap_life'.authorised
      /\ UNCHANGED <<ap_start, ap_db, ap_session, ap_task>>
  BY DEF RetriesShutdown, Clis, Lives
<1>2. ap_flight' \in Flights /\ (ap_flight' = ap_flight \/ ap_flight'.at = "cleanup")
  BY <1>0 DEF RetriesShutdown, TypedApp, IdleFlight, Flights, Stages, Reasons
<1>3. TypedApp' /\ ComposingInv' /\ SupervisorInv'
  BY <1>0, <1>1, <1>2 DEF TypedApp, ComposingInv, SupervisorInv
<1>4. ShutdownInv'
  BY <1>0, <1>1, <1>2 DEF ShutdownInv, Cleaned
<1> QED BY <1>3, <1>4 DEF AppInv

LEMMA LifecycleStep == AppInv /\ [LifecycleNext]_apVars => AppInv'
<1> SUFFICES ASSUME AppInv, [LifecycleNext]_apVars PROVE AppInv'
  OBVIOUS
<1>1. CASE UNCHANGED apVars
  BY <1>1 DEF apVars, AppInv, TypedApp, ComposingInv, SupervisorInv, ShutdownInv, Cleaned
<1>2. CASE LifecycleNext
  BY <1>2, ComposingStep, DriveStep, CommandStep, AskingStep, ShuttingStep, RetryStep
     DEF LifecycleNext
<1> QED BY <1>1, <1>2

LEMMA AppInitially == LifecycleInit => AppInv
<1> SUFFICES ASSUME LifecycleInit PROVE AppInv
  OBVIOUS
<1>1. /\ ap_start \in Starts /\ ap_life \in Lives /\ ap_flight \in Flights
      /\ ap_session \in TaskSessions /\ ap_cli \in Clis
  BY DEF LifecycleInit, Starts, Lives, Flights, Stages, Reasons, TaskSessions, Clis, IdleFlight
<1>2. ap_task \in [AllTasks -> DrivenTasks] /\ \A t \in AllTasks : Resting(ap_task[t])
  BY DEF LifecycleInit, DrivenTasks, Resting
<1>3. /\ ap_flight.at = "idle" /\ ~ap_life.authorised /\ ap_session.disposing = {}
      /\ ap_cli.at = "composing" /\ ap_db = "none"
  BY DEF LifecycleInit, IdleFlight
<1> QED BY <1>1, <1>2, <1>3
        DEF AppInv, TypedApp, ComposingInv, SupervisorInv, ShutdownInv, Cleaned

\* LifecycleCoordinator, runCli: the database is closed behind the agents the shutdown
\* has found, and the program ends in order only with an authorised exit, for any number of tasks and of
\* stages that fail.
THEOREM ExitIsOrderly == LifecycleSpec => []AgentsEndBeforeTheDatabase
<1>1. AppInv => AgentsEndBeforeTheDatabase
  BY DEF AppInv, ShutdownInv, AgentsEndBeforeTheDatabase
<1> QED BY <1>1, AppInitially, LifecycleStep, PTL DEF LifecycleSpec
-----------------------------------------------------------------------------
(* The supervisor (ProcessSupervision).  No line of the helper makes it claim a   *)
(* clean end by itself: its own probes do, after the run has left the handling of *)
(* lines.                                                                        *)

StopNames == {"none", "graceful_stop", "force_stop_tree"}
HostEvents == [type : {"pid", "host_exit"}, op : {"none"}]
              \cup [type : {"tree_clean", "cleanup_failed"}, op : StopNames]
              \cup [type : {"exited"}, op : ExitReasons]
StopModes == SUBSET {"graceful", "force"}
Tellings == SUBSET {"started", "cleanup_succeeded", "cleanup_failed", "exited"}
KnownPids == SUBSET Procs
SupervisedRuns ==
    [at : {"idle", "handling", "exit", "death", "settled"}, op : StopNames, clean : BOOLEAN,
     pids : KnownPids, asked : StopModes, told : Tellings]
Hosts == [at : {"idle", "serving", "dead"}, commands : StopModes,
          reason : ExitReasons, grace : BOOLEAN, force : {"no", "control", "timer"},
          watch : {"off", "root", "tree", "killed"}, sent : BOOLEAN, kill : BOOLEAN,
          stdin : BOOLEAN]

SupervisedInv ==
    /\ procs \in [Procs -> {"unborn", "alive", "dead"}]
    /\ host \in Hosts
    /\ sup \in SupervisedRuns
    /\ protocol \in Seq(HostEvents)

LEMMA Saying ==
    ASSUME SupervisedInv, NEW events \in Seq(HostEvents), Say(events)
    PROVE  protocol' \in Seq(HostEvents)
<1>1. CASE sup.at = "handling"
  <2>1. protocol' = protocol \o events
    BY <1>1 DEF Say
  <2> QED BY <2>1 DEF SupervisedInv
<1>2. CASE sup.at # "handling"
  BY <1>2 DEF Say
<1> QED BY <1>1, <1>2

LEMMA SayingOne ==
    ASSUME SupervisedInv, NEW event \in HostEvents, Say(<<event>>)
    PROVE  protocol' \in Seq(HostEvents)
<1>1. <<event>> \in Seq(HostEvents)
  OBVIOUS
<1> QED BY <1>1, Saying

LEMMA SayingTwo ==
    ASSUME SupervisedInv, NEW first \in HostEvents, NEW second \in HostEvents,
           Say(<<first, second>>)
    PROVE  protocol' \in Seq(HostEvents)
<1>1. <<first, second>> \in Seq(HostEvents)
  OBVIOUS
<1> QED BY <1>1, Saying

\* What is told, known and asked grows within its set.
LEMMA Growing ==
    /\ \A told \in Tellings, claim \in Tellings : told \cup claim \in Tellings
    /\ {"cleanup_failed"} \in Tellings /\ {"exited"} \in Tellings /\ {"started"} \in Tellings
    /\ \A pids \in KnownPids : pids \cup {"child"} \in KnownPids
    /\ {"root"} \in KnownPids
    /\ \A modes \in StopModes : /\ \A mode \in {"graceful", "force"} : modes \cup {mode} \in StopModes
                                /\ \A mode \in {"graceful", "force"} : modes \ {mode} \in StopModes
    /\ {} \in StopModes
BY DEF Tellings, KnownPids, StopModes, Procs

\* A line that is handled: the supervisor keeps what it has told, unless it gives up.
LEMMA LineHandled ==
    ASSUME SupervisedInv, OnHostEvent
    PROVE  /\ sup' \in SupervisedRuns /\ protocol' \in Seq(HostEvents)
           /\ "cleanup_succeeded" \in sup'.told => "cleanup_succeeded" \in sup.told
<1> DEFINE e == Head(protocol)
<1>1. e \in HostEvents /\ protocol' \in Seq(HostEvents)
  BY DEF SupervisedInv, OnHostEvent
<1>2. sup' = HandleLine(e)
  BY DEF OnHostEvent
<1>3. sup \in SupervisedRuns
  BY DEF SupervisedInv
<1> HIDE DEF e
<1>4. CASE e.type = "pid"
  <2>1. sup' = [sup EXCEPT !.pids = sup.pids \cup {"child"}]
    BY <1>2, <1>4 DEF HandleLine
  <2> QED BY <1>1, <1>3, <2>1, Growing DEF SupervisedRuns
<1>5. CASE e.type = "tree_clean"
  <2>1. e.op \in StopNames
    BY <1>1, <1>5 DEF HostEvents
  <2>2. PICK op \in StopNames : sup' = [sup EXCEPT !.clean = TRUE, !.op = op]
    <3>1. sup.op \in StopNames
      BY <1>3 DEF SupervisedRuns
    <3>2. sup' = [sup EXCEPT !.clean = TRUE, !.op = IF @ = "none" THEN e.op ELSE @]
      BY <1>2, <1>5 DEF HandleLine
    <3> QED BY <2>1, <3>1, <3>2
  <2> QED BY <1>1, <1>3, <2>2 DEF SupervisedRuns
<1>6. CASE e.type = "cleanup_failed"
  <2> DEFINE told == sup.told \cup {"cleanup_failed"}
  <2>1. told \in Tellings /\ told \cup {"exited"} \in Tellings
        /\ ("cleanup_succeeded" \in told \cup {"exited"} => "cleanup_succeeded" \in sup.told)
    BY <1>3, Growing DEF SupervisedRuns
  <2>2. \/ sup' = [sup EXCEPT !.told = told]
        \/ sup' = [[sup EXCEPT !.told = told] EXCEPT !.at = "settled", !.told = @ \cup {"exited"}]
    BY <1>2, <1>6 DEF HandleLine, SettleCleanupFailed, Settled
  <2> HIDE DEF told
  <2> QED BY <1>1, <1>3, <2>1, <2>2 DEF SupervisedRuns
<1>7. CASE e.type = "exited"
  <2>1. sup' = [sup EXCEPT !.at = "exit"]
    BY <1>2, <1>7 DEF HandleLine
  <2> QED BY <1>1, <1>3, <2>1 DEF SupervisedRuns
<1>8. CASE e.type = "host_exit"
  <2>1. sup' = [sup EXCEPT !.at = "death"]
    BY <1>2, <1>8 DEF HandleLine
  <2> QED BY <1>1, <1>3, <2>1 DEF SupervisedRuns
<1> QED BY <1>1, <1>4, <1>5, <1>6, <1>7, <1>8 DEF HostEvents

\* The supervisor's own verdict.
LEMMA RunProved ==
    ASSUME SupervisedInv, NEW verdict \in Verdicts, NEW claim \in Tellings,
           "cleanup_succeeded" \in claim => verdict = "clean",
           sup' = Settled([sup EXCEPT !.told = @ \cup claim])
    PROVE  /\ sup' \in SupervisedRuns
           /\ "cleanup_succeeded" \in sup'.told /\ "cleanup_succeeded" \notin sup.told
                  => sup.pids \cap Alive = {}
<1>1. sup' \in SupervisedRuns /\ sup'.told = sup.told \cup claim \cup {"exited"}
  <2>1. sup \in SupervisedRuns /\ sup.told \in Tellings
    BY DEF SupervisedInv, SupervisedRuns
  <2>2. sup.told \cup claim \cup {"exited"} \in Tellings
    BY <2>1, Growing
  <2>3. sup' = [[sup EXCEPT !.told = sup.told \cup claim] EXCEPT !.at = "settled",
                                                                 !.told = @ \cup {"exited"}]
    BY DEF Settled
  <2>4. sup' = [sup EXCEPT !.at = "settled", !.told = sup.told \cup claim \cup {"exited"}]
    BY <2>1, <2>3 DEF SupervisedRuns
  <2> QED BY <2>1, <2>2, <2>4 DEF SupervisedRuns
<1>2. verdict = "clean" => sup.pids \cap Alive = {}
  BY DEF Verdicts
<1> QED BY <1>1, <1>2

LEMMA RunSettled ==
    ASSUME SupervisedInv, ProveExit \/ ProveDeath
    PROVE  /\ sup' \in SupervisedRuns
           /\ "cleanup_succeeded" \in sup'.told /\ "cleanup_succeeded" \notin sup.told
                  => sup.pids \cap Alive = {}
<1>1. CASE ProveExit
  <2>1. PICK verdict \in Verdicts :
           sup' = Settled([sup EXCEPT !.told = @ \cup
                     (IF verdict # "clean" THEN {"cleanup_failed"}
                      ELSE IF sup.op = "none" /\ ~sup.clean THEN {} ELSE {"cleanup_succeeded"})])
    BY <1>1 DEF ProveExit
  <2> DEFINE claim == IF verdict # "clean" THEN {"cleanup_failed"}
                      ELSE IF sup.op = "none" /\ ~sup.clean THEN {} ELSE {"cleanup_succeeded"}
  <2>2. /\ claim \in Tellings
        /\ "cleanup_succeeded" \in claim => verdict = "clean"
        /\ sup' = Settled([sup EXCEPT !.told = @ \cup claim])
    BY <2>1 DEF Tellings
  <2> HIDE DEF claim
  <2> QED BY <2>2, RunProved
<1>2. CASE ProveDeath
  <2>1. PICK verdict \in Verdicts :
           sup' = Settled([sup EXCEPT !.told = @ \cup
                     {IF verdict = "clean" THEN "cleanup_succeeded" ELSE "cleanup_failed"}])
    BY <1>2 DEF ProveDeath
  <2> DEFINE claim == {IF verdict = "clean" THEN "cleanup_succeeded" ELSE "cleanup_failed"}
  <2>2. /\ claim \in Tellings
        /\ "cleanup_succeeded" \in claim => verdict = "clean"
        /\ sup' = Settled([sup EXCEPT !.told = @ \cup claim])
    BY <2>1 DEF Tellings
  <2> HIDE DEF claim
  <2> QED BY <2>2, RunProved
<1> QED BY <1>1, <1>2

\* What a step of the processes or of the helper leaves.
HostKeeps == /\ procs' \in [Procs -> {"unborn", "alive", "dead"}] /\ host' \in Hosts
             /\ protocol' \in Seq(HostEvents) /\ UNCHANGED sup

LEMMA ProcessStep ==
    ASSUME SupervisedInv,
           SpawnsChild \/ PrintsChild \/ StdinFails \/ \E p \in Procs : Ends(p) \/ Killed(p)
    PROVE  HostKeeps
<1>0. host \in Hosts /\ protocol \in Seq(HostEvents)
  BY DEF SupervisedInv
<1>1. CASE SpawnsChild \/ \E p \in Procs : Ends(p) \/ Killed(p)
  BY <1>0, <1>1 DEF SupervisedInv, SpawnsChild, Ends, Killed, HostKeeps
<1>2. CASE PrintsChild
  <2>1. Event("pid", "none") \in HostEvents
    BY DEF Event, HostEvents
  <2> QED BY <1>2, <2>1, SayingOne DEF PrintsChild, HostKeeps, SupervisedInv
<1>3. CASE StdinFails
  <2>1. Event("cleanup_failed", "force_stop_tree") \in HostEvents
    BY DEF Event, HostEvents, StopNames
  <2>2. host' \in Hosts
    BY <1>0, <1>3 DEF StdinFails, Hosts
  <2> QED BY <1>3, <2>1, <2>2, SayingOne DEF StdinFails, HostKeeps, SupervisedInv
<1> QED BY <1>1, <1>2, <1>3

LEMMA ForceStep ==
    ASSUME SupervisedInv, NEW h \in Hosts, NEW thread \in {"control", "timer"},
           ForceStopTree(h, thread), UNCHANGED <<procs, sup>>
    PROVE  HostKeeps
<1>1. host' \in Hosts
  BY DEF ForceStopTree, Hosts, ExitReasons
<1>2. Event("cleanup_failed", "force_stop_tree") \in HostEvents
  BY DEF Event, HostEvents, StopNames
<1>3. protocol' \in Seq(HostEvents)
  BY <1>2, SayingOne DEF ForceStopTree, SupervisedInv
<1> QED BY <1>1, <1>3 DEF HostKeeps, SupervisedInv

LEMMA HelperStep == ASSUME SupervisedInv, HostStep PROVE HostKeeps
<1>0. /\ host \in Hosts /\ host.reason \in ExitReasons
      /\ host.commands \ {"graceful"} \in StopModes /\ host.commands \ {"force"} \in StopModes
  BY Growing DEF SupervisedInv, Hosts
<1>1. CASE HandleGraceful \/ WatchRoot \/ WatchTerminates
  <2> DEFINE rest == host.commands \ {"graceful"}
  <2>1. \/ host' = [host EXCEPT !.commands = rest, !.reason = "graceful_stop", !.grace = TRUE]
        \/ host' = [host EXCEPT !.watch = "tree"]
        \/ host' = [host EXCEPT !.watch = "killed", !.kill = TRUE]
    BY <1>1 DEF HandleGraceful, WatchRoot, WatchTerminates
  <2>2. rest \in StopModes
    BY <1>0
  <2> HIDE DEF rest
  <2>3. host' \in Hosts
    BY <1>0, <2>1, <2>2 DEF Hosts, ExitReasons
  <2> QED BY <1>1, <2>3 DEF HandleGraceful, WatchRoot, WatchTerminates, HostKeeps, SupervisedInv
<1>2. CASE HandleForce
  <2>1. [host EXCEPT !.commands = @ \ {"force"}] \in Hosts
    <3> DEFINE rest == host.commands \ {"force"}
    <3>1. [host EXCEPT !.commands = @ \ {"force"}] = [host EXCEPT !.commands = rest]
      OBVIOUS
    <3>2. rest \in StopModes
      BY <1>0
    <3> HIDE DEF rest
    <3>3. [host EXCEPT !.commands = rest] \in Hosts
      BY <1>0, <3>2 DEF Hosts
    <3> QED BY <3>1, <3>3
  <2> QED BY <1>2, <2>1, ForceStep DEF HandleForce
<1>3. CASE GraceEnds
  <2>1. [host EXCEPT !.grace = FALSE] \in Hosts
    BY <1>0 DEF Hosts
  <2> QED BY <1>3, <2>1, ForceStep DEF GraceEnds, HostKeeps, SupervisedInv
<1>4. CASE ForceEnds
  <2>1. host' \in Hosts
    BY <1>0, <1>4 DEF ForceEnds, Hosts
  <2>2. /\ Event("cleanup_failed", "force_stop_tree") \in HostEvents
        /\ Event("tree_clean", "force_stop_tree") \in HostEvents
        /\ Event("exited", "force_stop") \in HostEvents
    BY DEF Event, HostEvents, StopNames, ExitReasons
  <2>3. protocol' \in Seq(HostEvents)
    <3>1. CASE Alive # {}
      BY <1>4, <2>2, <3>1, SayingOne DEF ForceEnds
    <3>2. CASE Alive = {} /\ host.sent
      <4>1. Say(<<>>) /\ <<>> \in Seq(HostEvents)
        BY <1>4, <3>2 DEF ForceEnds
      <4> QED BY <4>1, Saying
    <3>3. CASE Alive = {} /\ ~host.sent
      <4>1. Say(<<Event("tree_clean", "force_stop_tree"), Event("exited", "force_stop")>>)
        BY <1>4, <3>3 DEF ForceEnds
      <4> QED BY <2>2, <4>1, SayingTwo
    <3> QED BY <3>1, <3>2, <3>3
  <2> QED BY <1>4, <2>1, <2>3 DEF ForceEnds, HostKeeps, SupervisedInv
<1>5. CASE WatchEnds
  <2>1. host' \in Hosts
    BY <1>0, <1>5 DEF WatchEnds, Hosts
  <2>2. /\ Event("tree_clean", StopName(host.reason)) \in HostEvents
        /\ Event("exited", host.reason) \in HostEvents
        /\ \A op \in StopNames : Event("cleanup_failed", op) \in HostEvents
    BY <1>0 DEF Event, HostEvents, StopNames, StopName, ExitReasons
  <2>3. protocol' \in Seq(HostEvents)
    <3>1. CASE host.sent
      <4>1. Say(<<>>) /\ <<>> \in Seq(HostEvents)
        BY <1>5, <3>1 DEF WatchEnds
      <4> QED BY <4>1, Saying
    <3>2. CASE ~host.sent /\ Alive = {}
      BY <1>5, <2>2, <3>2, SayingTwo DEF WatchEnds
    <3>3. CASE ~host.sent /\ Alive # {}
      <4>1. PICK op \in StopNames :
               Say(<<Event("cleanup_failed", op), Event("exited", host.reason)>>)
        BY <1>5, <3>3 DEF WatchEnds, StopNames
      <4> QED BY <2>2, <4>1, SayingTwo
    <3> QED BY <3>1, <3>2, <3>3
  <2> QED BY <1>5, <2>1, <2>3 DEF WatchEnds, HostKeeps, SupervisedInv
<1> QED BY <1>1, <1>2, <1>3, <1>4, <1>5 DEF HostStep

LEMMA HostEnds == ASSUME SupervisedInv, HostDies \/ Dispose PROVE HostKeeps
<1>1. Event("host_exit", "none") \in HostEvents
  BY DEF Event, HostEvents
<1>2. HostGone /\ UNCHANGED <<procs, sup>>
  BY DEF HostDies, Dispose
<1>3. host' \in Hosts
  <2>1. host' = [host EXCEPT !.at = "dead", !.commands = {}, !.grace = FALSE,
                             !.force = "no", !.watch = "off", !.stdin = FALSE]
    BY <1>2 DEF HostGone
  <2> QED BY <2>1, Growing DEF SupervisedInv, Hosts
<1> QED BY <1>1, <1>2, <1>3, SayingOne DEF HostGone, HostKeeps, SupervisedInv

SuccessProved == "cleanup_succeeded" \in sup'.told /\ "cleanup_succeeded" \notin sup.told
                     => sup.pids \cap Alive = {}

LEMMA SupervisedStep ==
    SupervisedInv /\ [SupervisionNext]_psVars => SupervisedInv' /\ SuccessProved
<1> SUFFICES ASSUME SupervisedInv, [SupervisionNext]_psVars
             PROVE  SupervisedInv' /\ SuccessProved
  OBVIOUS
<1>0. /\ procs \in [Procs -> {"unborn", "alive", "dead"}] /\ host \in Hosts
      /\ sup \in SupervisedRuns /\ protocol \in Seq(HostEvents)
  BY DEF SupervisedInv
<1>1. CASE HostKeeps
  BY <1>0, <1>1 DEF HostKeeps, SupervisedInv, SuccessProved
<1>2. CASE StartTarget
  <2>1. host' \in Hosts
    BY <1>0, <1>2 DEF StartTarget, Hosts
  <2>2. sup' \in SupervisedRuns /\ sup'.told = {"started"}
    <3>1. sup' = [sup EXCEPT !.at = "handling", !.pids = {"root"}, !.told = {"started"}]
      BY <1>2 DEF StartTarget
    <3> DEFINE known == {"root"}
               claims == {"started"}
    <3>2. known \in KnownPids /\ claims \in Tellings
      BY Growing
    <3>3. sup' = [sup EXCEPT !.at = "handling", !.pids = known, !.told = claims]
      BY <3>1
    <3> HIDE DEF known, claims
    <3>4. sup' \in SupervisedRuns /\ sup'.told = claims
      BY <1>0, <3>2, <3>3 DEF SupervisedRuns
    <3> QED BY <3>4 DEF claims
  <2>3. procs' \in [Procs -> {"unborn", "alive", "dead"}] /\ protocol' = protocol
    BY <1>0, <1>2 DEF StartTarget, Procs
  <2> QED BY <1>0, <2>1, <2>2, <2>3 DEF SupervisedInv, SuccessProved
<1>3. CASE StartFails
  BY <1>0, <1>3 DEF StartFails, SupervisedInv, SuccessProved, Hosts, SupervisedRuns
<1>4. ASSUME NEW mode \in {"graceful", "force"}, NEW op \in StopNames, RequestStop(mode, op)
      PROVE  SupervisedInv' /\ SuccessProved
  <2>1. sup' \in SupervisedRuns /\ sup'.told = sup.told
    <3> DEFINE asks == sup.asked \cup {mode}
    <3>1. asks \in StopModes
      BY <1>0, Growing DEF SupervisedRuns
    <3>2. sup' = [sup EXCEPT !.op = op, !.asked = asks]
      BY <1>4 DEF RequestStop
    <3> HIDE DEF asks
    <3> QED BY <1>0, <3>1, <3>2 DEF SupervisedRuns
  <2>2. host' \in Hosts
    <3> DEFINE queue == host.commands \cup {mode}
    <3>1. queue \in StopModes
      BY <1>0, Growing DEF Hosts
    <3>2. host' = host \/ host' = [host EXCEPT !.commands = queue]
      BY <1>4 DEF RequestStop
    <3> HIDE DEF queue
    <3> QED BY <1>0, <3>1, <3>2 DEF Hosts
  <2> QED BY <1>0, <1>4, <2>1, <2>2 DEF RequestStop, SupervisedInv, SuccessProved
<1>5. CASE OnHostEvent
  BY <1>0, <1>5, LineHandled DEF OnHostEvent, SupervisedInv, SuccessProved
<1>6. CASE ProveExit \/ ProveDeath
  BY <1>0, <1>6, RunSettled DEF ProveExit, ProveDeath, SupervisedInv, SuccessProved
<1>7. CASE UNCHANGED psVars
  BY <1>0, <1>7 DEF psVars, SupervisedInv, SuccessProved
<1>8. CASE SupervisionNext
  <2>1. "graceful_stop" \in StopNames /\ "force_stop_tree" \in StopNames
    BY DEF StopNames
  <2> QED BY <1>1, <1>2, <1>3, <1>4, <1>5, <1>6, <1>8, <2>1, ProcessStep, HelperStep, HostEnds
          DEF SupervisionNext, SupervisorStep
<1> QED BY <1>7, <1>8

LEMMA SupervisedInitially == SupervisionInit => SupervisedInv
<1> SUFFICES ASSUME SupervisionInit PROVE SupervisedInv
  OBVIOUS
<1>1. host \in Hosts /\ sup \in SupervisedRuns
  <2>1. {} \in StopModes /\ {} \in Tellings /\ {} \in KnownPids
    BY DEF StopModes, Tellings, KnownPids
  <2> QED BY <2>1 DEF SupervisionInit, Hosts, SupervisedRuns, ExitReasons, StopNames
<1>2. protocol \in Seq(HostEvents) /\ procs \in [Procs -> {"unborn", "alive", "dead"}]
  BY DEF SupervisionInit
<1> QED BY <1>1, <1>2 DEF SupervisedInv

\* ProcessSupervisor: whoever ends a run, and whatever the helper says of it or leaves
\* unsaid, a cleanup is announced as a success only with every known process dead.
THEOREM CleanEndIsProved == SupervisionSpec => SuccessIsProved
<1>1. SupervisedInv /\ [SupervisionNext]_psVars
         => [("cleanup_succeeded" \in sup'.told /\ "cleanup_succeeded" \notin sup.told)
               => sup.pids \cap Alive = {}]_psVars
  BY SupervisedStep DEF SuccessProved
<1> QED BY <1>1, SupervisedInitially, SupervisedStep, PTL DEF SupervisionSpec, SuccessIsProved
-----------------------------------------------------------------------------
(* The log of a run (RunLog).  What is acknowledged lies before the offset of     *)
(* whoever has the file open; nobody writes before its offset, and a line end     *)
(* that is in the file is never cut off.                                          *)

Cells == [id : Nat, of : Lengths, part : Lengths, seq : Nat]
LogFiles == Seq(Cells)
LinePlaces == [id : Nat, of : Lengths, seq : Nat, offset : Nat]
Queues == Seq(Lines)
WriterRows == [at : {"closed", "open", "closing", "dead"}, seq : Nat, offset : Nat,
               unusable : BOOLEAN, queue : Queues, line : Lines, written : 0 .. 2]

Writes(writer) == writer.at \in {"open", "closing"}
CellOf(writer, part) == [id |-> writer.line.id, of |-> writer.line.of, part |-> part,
                         seq |-> writer.seq + 1]

\* A writer has the lock, stands behind what is acknowledged, and has in the file what
\* it has written of its line.
WriterOK(w, writer) ==
    /\ Writes(writer) =>
          /\ rl_lock = w /\ writer.offset <= Len(rl_file)
          /\ \A p \in rl_acked : p.offset + p.of <= writer.offset
    /\ writer.line # NoLine =>
          /\ Writes(writer)
          /\ writer.offset + writer.written <= Len(rl_file)
          /\ \A k \in 1 .. writer.written : rl_file[writer.offset + k] = CellOf(writer, k)

LogTyped == /\ rl_file \in LogFiles /\ rl_lock \in {0} \cup LogWriters
            /\ rl_writer \in [LogWriters -> WriterRows]
            /\ rl_acked \subseteq LinePlaces /\ rl_lines \in Nat

LogInv == LogTyped /\ AcknowledgedLinesSurvive /\ \A w \in LogWriters : WriterOK(w, rl_writer[w])

LEMMA CellFacts ==
    ASSUME NEW writer \in WriterRows, NEW part \in Lengths
    PROVE  CellOf(writer, part) \in Cells
<1>1. writer.line.id \in Nat /\ writer.line.of \in Lengths
  BY LogAssumption DEF WriterRows, Lines, NoLine, LineIds, Lengths
<1> QED BY <1>1 DEF WriterRows, CellOf, Cells

\* The parts of an acknowledged line.
PlaceKept(p, file) ==
    \A part \in 1 .. p.of :
        /\ p.offset + part <= Len(file)
        /\ file[p.offset + part] = [id |-> p.id, of |-> p.of, part |-> part, seq |-> p.seq]

LEMMA Survival == AcknowledgedLinesSurvive <=> \A p \in rl_acked : PlaceKept(p, rl_file)
BY DEF AcknowledgedLinesSurvive, PlaceKept

\* A line that is acknowledged has its end in the file.
LEMMA EndsAreThere ==
    ASSUME LogInv, NEW p \in rl_acked
    PROVE  /\ p.offset \in Nat /\ p.of \in 1 .. 2
           /\ p.offset + p.of \in LineEnds /\ p.offset + p.of <= Len(rl_file)
<1>1. p \in LinePlaces /\ PlaceKept(p, rl_file) /\ Len(rl_file) \in Nat
      /\ DOMAIN rl_file = 1 .. Len(rl_file)
  BY Survival DEF LogInv, LogTyped, LogFiles
<1>2. p.offset \in Nat /\ p.of \in 1 .. 2
  BY <1>1 DEF LinePlaces, Lengths
<1>3. /\ p.offset + p.of <= Len(rl_file)
      /\ rl_file[p.offset + p.of] = [id |-> p.id, of |-> p.of, part |-> p.of, seq |-> p.seq]
  BY <1>1, <1>2 DEF PlaceKept
<1>4. p.offset + p.of \in 1 .. Len(rl_file)
  BY <1>1, <1>2, <1>3
<1> QED BY <1>1, <1>2, <1>3, <1>4 DEF LineEnds

\* What is cut off lies behind the last line end.
LEMMA Truncation ==
    ASSUME LogInv
    PROVE  /\ CompleteBytes \in Nat /\ CompleteBytes <= Len(rl_file)
           /\ \A e \in LineEnds : e <= CompleteBytes
           /\ Truncated \in LogFiles /\ Len(Truncated) = CompleteBytes
           /\ \A k \in 1 .. CompleteBytes : Truncated[k] = rl_file[k]
<1>1. rl_file \in LogFiles /\ Len(rl_file) \in Nat /\ DOMAIN rl_file = 1 .. Len(rl_file)
  BY DEF LogInv, LogTyped, LogFiles
<1> DEFINE ends == {0} \cup LineEnds
<1>2. ends \in SUBSET Nat /\ ends # {} /\ \A n \in ends : n <= Len(rl_file)
  BY <1>1 DEF LineEnds
<1>3. CompleteBytes \in ends /\ \A n \in ends : n <= CompleteBytes
  BY <1>1, <1>2, GreatestOne DEF CompleteBytes
<1>4. CompleteBytes \in Nat /\ CompleteBytes <= Len(rl_file)
  BY <1>2, <1>3
<1>5. /\ Truncated \in LogFiles /\ Len(Truncated) = CompleteBytes
      /\ \A k \in 1 .. CompleteBytes : Truncated[k] = rl_file[k]
  BY <1>1, <1>4 DEF Truncated, LogFiles
<1> QED BY <1>3, <1>4, <1>5

\* A repaired file keeps what was acknowledged, before its new end.
LEMMA RepairKeeps ==
    ASSUME LogInv, NEW p \in rl_acked
    PROVE  PlaceKept(p, Truncated) /\ p.offset + p.of <= CompleteBytes
<1>1. /\ PlaceKept(p, rl_file) /\ p.offset \in Nat /\ p.of \in 1 .. 2
      /\ p.offset + p.of <= CompleteBytes
  BY Survival, Truncation, EndsAreThere DEF LogInv
<1>2. \A part \in 1 .. p.of : p.offset + part \in 1 .. CompleteBytes
  BY <1>1, Truncation
<1> QED BY <1>1, <1>2, Truncation DEF PlaceKept

\* Two writers never have the file open.
LEMMA OneHasTheFile ==
    ASSUME LogInv, NEW w \in LogWriters, rl_lock = w \/ rl_lock = 0 \/ Writes(W(w)),
           NEW v \in LogWriters, v # w
    PROVE  ~Writes(W(v)) /\ W(v).line = NoLine
BY LogAssumption DEF LogInv, WriterOK, W

\* One writer changes; the others do not have the file open.
LEMMA WriterStep ==
    ASSUME LogInv, NEW w \in LogWriters, NEW row \in WriterRows, Becomes(w, row),
           \A v \in LogWriters \ {w} : ~Writes(W(v)) /\ W(v).line = NoLine,
           WriterOK(w, row)',
           rl_file' \in LogFiles, rl_lock' \in {0} \cup LogWriters, rl_acked' \subseteq LinePlaces,
           rl_lines' \in Nat, \A p \in rl_acked' : PlaceKept(p, rl_file')
    PROVE  LogInv'
<1>1. /\ rl_writer' \in [LogWriters -> WriterRows] /\ rl_writer'[w] = row
      /\ \A v \in LogWriters \ {w} : rl_writer'[v] = W(v)
  BY DEF LogInv, LogTyped, Becomes, W
<1>2. ASSUME NEW v \in LogWriters PROVE WriterOK(v, rl_writer[v])'
  BY <1>1 DEF WriterOK
<1>3. AcknowledgedLinesSurvive'
  BY DEF AcknowledgedLinesSurvive, PlaceKept
<1> QED BY <1>1, <1>2, <1>3 DEF LogInv, LogTyped

\* The same, when the file and what is acknowledged stay as they are.
LEMMA WriterAlone ==
    ASSUME LogInv, NEW w \in LogWriters, NEW row \in WriterRows, Becomes(w, row),
           Writes(W(w)), WriterOK(w, row)',
           UNCHANGED <<rl_file, rl_acked>>, rl_lock' \in {0} \cup LogWriters, rl_lines' \in Nat
    PROVE  LogInv'
<1>1. \A v \in LogWriters \ {w} : ~Writes(W(v)) /\ W(v).line = NoLine
  BY OneHasTheFile
<1>2. /\ rl_file' \in LogFiles /\ rl_acked' \subseteq LinePlaces
      /\ \A p \in rl_acked' : PlaceKept(p, rl_file')
  BY Survival DEF LogInv, LogTyped
<1> QED BY <1>1, <1>2, WriterStep

LEMMA OpenStep == ASSUME LogInv, NEW w \in LogWriters, Open(w) PROVE LogInv'
<1>1. PICK row \in WriterRows :
         /\ Becomes(w, row) /\ Writes(row) /\ row.offset = CompleteBytes /\ row.line = NoLine
  <2> DEFINE row == [NoWriter EXCEPT !.at = "open", !.seq = Cardinality(LineEnds),
                                     !.offset = CompleteBytes]
  <2>1. Cardinality(LineEnds) \in Nat /\ CompleteBytes \in Nat
    <3>1. IsFiniteSet(DOMAIN rl_file) /\ LineEnds \in SUBSET (DOMAIN rl_file)
      BY FS_Interval DEF LogInv, LogTyped, LogFiles, LineEnds
    <3> QED BY <3>1, Truncation, FS_Subset, FS_CardinalityType
  <2>2. <<>> \in Queues /\ NoLine \in Lines /\ 0 \in 0 .. 2
    BY DEF Queues, Lines
  <2>3. row \in WriterRows /\ row.at = "open" /\ row.offset = CompleteBytes /\ row.line = NoLine
    BY <2>1, <2>2 DEF NoWriter, WriterRows
  <2>4. Becomes(w, row)
    BY DEF Open
  <2> HIDE DEF row
  <2> QED BY <2>3, <2>4 DEF Writes
<1>2. /\ rl_lock = 0 /\ rl_lock' = w /\ rl_file' = Truncated /\ UNCHANGED <<rl_acked, rl_lines>>
  BY DEF Open, LockIsFree
<1>3. WriterOK(w, row)'
  BY <1>1, <1>2, Truncation, RepairKeeps DEF WriterOK
<1>4. \A p \in rl_acked' : PlaceKept(p, rl_file')
  BY <1>2, RepairKeeps
<1>5. \A v \in LogWriters \ {w} : ~Writes(W(v)) /\ W(v).line = NoLine
  BY <1>2, OneHasTheFile
<1>6. /\ rl_file' \in LogFiles /\ rl_lock' \in {0} \cup LogWriters
      /\ rl_acked' \subseteq LinePlaces /\ rl_lines' \in Nat
  BY <1>2, Truncation DEF LogInv, LogTyped
<1> QED BY <1>1, <1>3, <1>4, <1>5, <1>6, WriterStep

\* A writer stays where it is, with its line, with another of which nothing is written,
\* or without one.
StaysPut(w, row) ==
    /\ Becomes(w, row) /\ Writes(row) /\ row.offset = W(w).offset
    /\ \/ row.line = W(w).line /\ row.written = W(w).written /\ row.seq = W(w).seq
       \/ row.line = NoLine
       \/ row.written = 0

\* It takes up, is handed, or gives up a line.
LEMMA QuietStep ==
    ASSUME LogInv, NEW w \in LogWriters,
           \/ BeginAppend(w) \/ FailAppend(w) \/ CloseLog(w)
           \/ \E length \in Lengths : Enqueue(w, length)
    PROVE  LogInv'
<1>0. /\ W(w) \in WriterRows /\ WriterOK(w, W(w)) /\ rl_lines \in Nat
      /\ rl_lock \in {0} \cup LogWriters
  BY DEF LogInv, LogTyped, W
<1>1. Writes(W(w))
  BY <1>0 DEF BeginAppend, Idle, FailAppend, CloseLog, Enqueue, Writes, WriterOK
<1>2. UNCHANGED <<rl_file, rl_acked, rl_lock>> /\ rl_lines' \in Nat
  <2>1. /\ UNCHANGED <<rl_file, rl_acked, rl_lock>>
        /\ rl_lines' = rl_lines \/ rl_lines' = rl_lines + 1
    BY DEF BeginAppend, FailAppend, CloseLog, Enqueue
  <2> QED BY <1>0, <2>1
<1>3. PICK row \in WriterRows : StaysPut(w, row)
  <2>1. CASE BeginAppend(w)
    <3> DEFINE line == Head(W(w).queue)
               queue == Tail(W(w).queue)
               row == [W(w) EXCEPT !.line = line, !.queue = queue, !.written = 0]
    <3>1. Becomes(w, row) /\ W(w).queue # <<>>
      BY <2>1 DEF BeginAppend
    <3>2. line \in Lines /\ queue \in Queues /\ 0 \in 0 .. 2
      BY <1>0, <3>1 DEF WriterRows, Queues
    <3> HIDE DEF line, queue
    <3>3. row \in WriterRows /\ row.at = W(w).at /\ row.offset = W(w).offset /\ row.written = 0
      BY <1>0, <3>2 DEF WriterRows
    <3> HIDE DEF row
    <3> QED BY <1>1, <3>1, <3>3 DEF Writes, StaysPut
  <2>2. CASE FailAppend(w)
    <3> DEFINE row == [W(w) EXCEPT !.unusable = TRUE, !.line = NoLine]
    <3>1. Becomes(w, row) /\ NoLine \in Lines
      BY <2>2 DEF FailAppend, Lines
    <3>2. row \in WriterRows /\ row.at = W(w).at /\ row.offset = W(w).offset /\ row.line = NoLine
      BY <1>0, <3>1 DEF WriterRows
    <3> HIDE DEF row
    <3> QED BY <1>1, <3>1, <3>2 DEF Writes, StaysPut
  <2>3. CASE CloseLog(w)
    <3> DEFINE row == [W(w) EXCEPT !.at = "closing"]
    <3>1. Becomes(w, row)
      BY <2>3 DEF CloseLog
    <3>2. /\ row \in WriterRows /\ row.at = "closing" /\ row.offset = W(w).offset
          /\ row.line = W(w).line /\ row.written = W(w).written /\ row.seq = W(w).seq
      BY <1>0 DEF WriterRows
    <3> HIDE DEF row
    <3> QED BY <3>1, <3>2 DEF Writes, StaysPut
  <2>4. ASSUME NEW length \in Lengths, Enqueue(w, length)
        PROVE  \E row \in WriterRows : StaysPut(w, row)
    <3> DEFINE next == [id |-> rl_lines + 1, of |-> length]
               queue == Append(W(w).queue, next)
               row == [W(w) EXCEPT !.queue = queue]
    <3>1. Becomes(w, row) /\ rl_lines < MaxLines
      BY <2>4 DEF Enqueue
    <3>2. next \in Lines
      BY <1>0, <3>1, LogAssumption DEF Lines, LineIds
    <3> HIDE DEF next
    <3>3. queue \in Queues
      BY <1>0, <3>2 DEF WriterRows, Queues
    <3> HIDE DEF queue
    <3>4. /\ row \in WriterRows /\ row.at = W(w).at /\ row.offset = W(w).offset
          /\ row.line = W(w).line /\ row.written = W(w).written /\ row.seq = W(w).seq
      BY <1>0, <3>3 DEF WriterRows
    <3> HIDE DEF row
    <3> QED BY <1>1, <3>1, <3>4 DEF Writes, StaysPut
  <2> QED BY <2>1, <2>2, <2>3, <2>4
<1>4. WriterOK(w, row)'
  <2>1. /\ rl_lock = w /\ W(w).offset <= Len(rl_file) /\ W(w).offset \in Nat
        /\ \A p \in rl_acked : p.offset + p.of <= W(w).offset
    BY <1>0, <1>1 DEF WriterOK, WriterRows
  <2>2. CASE row.line = NoLine
    BY <1>2, <1>3, <2>1, <2>2 DEF WriterOK, StaysPut
  <2>3. CASE row.written = 0
    BY <1>2, <1>3, <2>1, <2>3 DEF WriterOK, StaysPut
  <2>4. CASE row.line = W(w).line /\ row.written = W(w).written /\ row.seq = W(w).seq
    BY <1>0, <1>2, <1>3, <2>1, <2>4 DEF WriterOK, CellOf, StaysPut
  <2> QED BY <1>3, <2>2, <2>3, <2>4 DEF StaysPut
<1> QED BY <1>0, <1>1, <1>2, <1>3, <1>4, WriterAlone DEF StaysPut

\* One call of write: behind everything that is acknowledged.
LEMMA WriteStep == ASSUME LogInv, NEW w \in LogWriters, WriteSome(w) PROVE LogInv'
<1> DEFINE part == W(w).written + 1
           cell == CellOf(W(w), part)
           at == W(w).offset + part
<1>0. /\ W(w) \in WriterRows /\ WriterOK(w, W(w)) /\ rl_lines \in Nat
      /\ rl_file \in LogFiles /\ Len(rl_file) \in Nat
      /\ rl_lock \in {0} \cup LogWriters /\ rl_acked \subseteq LinePlaces
  BY DEF LogInv, LogTyped, W, LogFiles
<1>1. /\ W(w).line # NoLine /\ part <= W(w).line.of /\ UNCHANGED <<rl_lock, rl_acked, rl_lines>>
      /\ rl_file' = IF at <= Len(rl_file) THEN [rl_file EXCEPT ![at] = cell]
                    ELSE Append(rl_file, cell)
      /\ Becomes(w, [W(w) EXCEPT !.written = part])
  BY DEF WriteSome, CellOf
<1>2. /\ W(w).offset \in Nat /\ W(w).written \in Nat /\ part \in 1 .. 2
      /\ W(w).line.of \in 1 .. 2
  <2>1. W(w).line.of \in 1 .. 2
    BY <1>0 DEF WriterRows, Lines, NoLine, Lengths
  <2> QED BY <1>0, <1>1, <2>1 DEF WriterRows
<1>3. /\ Writes(W(w)) /\ rl_lock = w /\ at <= Len(rl_file) + 1 /\ at \in Nat /\ at >= 1
      /\ \A p \in rl_acked : p.offset + p.of < at
      /\ \A k \in 1 .. W(w).written : rl_file[W(w).offset + k] = CellOf(W(w), k)
  <2>1. \A p \in rl_acked : p.offset + p.of \in Nat
    BY <1>0 DEF LinePlaces, Lengths
  <2> QED BY <1>0, <1>1, <1>2, <2>1 DEF WriterOK
<1>4. cell \in Cells
  BY <1>0, <1>2, CellFacts DEF Lengths
<1> HIDE DEF cell
<1>5. /\ rl_file' \in LogFiles /\ at <= Len(rl_file') /\ Len(rl_file) <= Len(rl_file')
      /\ rl_file'[at] = cell
      /\ \A k \in 1 .. Len(rl_file) : k # at => rl_file'[k] = rl_file[k]
      /\ Len(rl_file') \in Nat
  <2>1. CASE at <= Len(rl_file)
    <3>1. rl_file' = [rl_file EXCEPT ![at] = cell]
      BY <1>1, <2>1
    <3>2. at \in 1 .. Len(rl_file)
      BY <1>3, <2>1
    <3> HIDE DEF at
    <3> QED BY <1>0, <1>4, <2>1, <3>1, <3>2 DEF LogFiles
  <2>2. CASE ~(at <= Len(rl_file))
    <3>1. rl_file' = Append(rl_file, cell) /\ at = Len(rl_file) + 1
      BY <1>0, <1>1, <1>3, <2>2
    <3> HIDE DEF at
    <3> QED BY <1>0, <1>4, <3>1 DEF LogFiles
  <2> QED BY <2>1, <2>2
<1>6. PICK row \in WriterRows :
         /\ Becomes(w, row) /\ row.at = W(w).at /\ row.offset = W(w).offset
         /\ row.line = W(w).line /\ row.written = part /\ row.seq = W(w).seq
  <2> DEFINE row == [W(w) EXCEPT !.written = part]
  <2>1. part \in 0 .. 2
    BY <1>2
  <2> HIDE DEF part
  <2>2. /\ row \in WriterRows /\ row.at = W(w).at /\ row.offset = W(w).offset
        /\ row.line = W(w).line /\ row.written = part /\ row.seq = W(w).seq
    BY <1>0, <2>1 DEF WriterRows
  <2>3. Becomes(w, row)
    BY <1>1
  <2> HIDE DEF row
  <2> QED BY <2>2, <2>3
<1>7. WriterOK(w, row)'
  <2>1. \A k \in 1 .. row.written : rl_file'[row.offset + k] = CellOf(row, k)
    <3> SUFFICES ASSUME NEW k \in 1 .. part PROVE rl_file'[W(w).offset + k] = CellOf(W(w), k)
      BY <1>6 DEF CellOf
    <3>1. CASE k = part
      BY <1>5, <3>1 DEF cell
    <3>2. CASE k # part
      <4>1. k \in 1 .. W(w).written /\ W(w).offset + k \in 1 .. Len(rl_file) /\ W(w).offset + k # at
        BY <1>0, <1>2, <1>3, <3>2
      <4> QED BY <1>3, <1>5, <4>1
    <3> QED BY <3>1, <3>2
  <2>2. row.offset <= Len(rl_file')
    BY <1>2, <1>5, <1>6
  <2>3. row.offset + row.written <= Len(rl_file')
    BY <1>5, <1>6
  <2>4. \A p \in rl_acked' : p.offset + p.of <= row.offset
    BY <1>0, <1>1, <1>3, <1>6 DEF WriterOK
  <2> QED BY <1>1, <1>3, <1>6, <2>1, <2>2, <2>3, <2>4 DEF WriterOK, Writes
<1>8. ASSUME NEW p \in rl_acked PROVE PlaceKept(p, rl_file')
  <2>1. PlaceKept(p, rl_file) /\ p.offset \in Nat /\ p.of \in 1 .. 2
    BY Survival, EndsAreThere DEF LogInv
  <2>2. \A k \in 1 .. p.of : p.offset + k \in 1 .. Len(rl_file) /\ p.offset + k # at
    BY <1>0, <1>3, <2>1 DEF PlaceKept
  <2> HIDE DEF at
  <2> QED BY <1>0, <1>5, <2>1, <2>2 DEF PlaceKept
<1>9. \A v \in LogWriters \ {w} : ~Writes(W(v)) /\ W(v).line = NoLine
  BY <1>3, OneHasTheFile
<1> QED BY <1>0, <1>1, <1>5, <1>6, <1>7, <1>8, <1>9, WriterStep

\* A line that is acknowledged is what its writer has put there.
LEMMA FinishStep == ASSUME LogInv, NEW w \in LogWriters, FinishAppend(w) PROVE LogInv'
<1> DEFINE place == [id |-> W(w).line.id, of |-> W(w).line.of,
                     seq |-> W(w).seq + 1, offset |-> W(w).offset]
           end == W(w).offset + W(w).line.of
<1>0. /\ W(w) \in WriterRows /\ WriterOK(w, W(w)) /\ rl_lines \in Nat
      /\ rl_file \in LogFiles /\ rl_lock \in {0} \cup LogWriters /\ rl_acked \subseteq LinePlaces
      /\ Len(rl_file) \in Nat
  BY DEF LogInv, LogTyped, W, LogFiles
<1>1. /\ W(w).line # NoLine /\ W(w).written = W(w).line.of
      /\ rl_acked' = rl_acked \cup {place} /\ UNCHANGED <<rl_file, rl_lock, rl_lines>>
      /\ Becomes(w, [W(w) EXCEPT !.seq = W(w).seq + 1, !.offset = end, !.line = NoLine])
  BY DEF FinishAppend, NextOffset
<1>2. /\ W(w).offset \in Nat /\ W(w).seq \in Nat /\ W(w).line.of \in 1 .. 2
      /\ W(w).line.id \in Nat /\ end \in Nat
  <2>1. W(w).line.of \in 1 .. 2 /\ W(w).line.id \in Nat
    BY <1>0, LogAssumption DEF WriterRows, Lines, NoLine, Lengths, LineIds
  <2> QED BY <1>0, <2>1 DEF WriterRows
<1>3. /\ Writes(W(w)) /\ rl_lock = w /\ end <= Len(rl_file)
      /\ \A p \in rl_acked : p.offset + p.of <= end
      /\ \A k \in 1 .. W(w).line.of : rl_file[W(w).offset + k] = CellOf(W(w), k)
  <2>1. \A p \in rl_acked : p.offset + p.of \in Nat
    BY <1>0 DEF LinePlaces, Lengths
  <2> QED BY <1>0, <1>1, <1>2, <2>1 DEF WriterOK
<1>4. place \in LinePlaces /\ place.offset + place.of = end
  BY <1>2 DEF LinePlaces, Lengths
<1>5. PlaceKept(place, rl_file)
  BY <1>0, <1>2, <1>3 DEF PlaceKept, CellOf
<1> HIDE DEF place
<1>6. PICK row \in WriterRows :
         Becomes(w, row) /\ row.at = W(w).at /\ row.offset = end /\ row.line = NoLine
  <2> DEFINE seq == W(w).seq + 1
             row == [W(w) EXCEPT !.seq = seq, !.offset = end, !.line = NoLine]
  <2>1. Becomes(w, row) /\ NoLine \in Lines /\ seq \in Nat
    BY <1>1, <1>2 DEF Lines
  <2> HIDE DEF seq, end
  <2>2. row \in WriterRows /\ row.at = W(w).at /\ row.offset = end /\ row.line = NoLine
    BY <1>0, <1>2, <2>1 DEF WriterRows
  <2> HIDE DEF row
  <2> QED BY <2>1, <2>2
<1>7. WriterOK(w, row)'
  BY <1>1, <1>2, <1>3, <1>4, <1>6 DEF WriterOK, Writes
<1>8. \A p \in rl_acked' : PlaceKept(p, rl_file')
  BY <1>1, <1>5, Survival DEF LogInv
<1>9. \A v \in LogWriters \ {w} : ~Writes(W(v)) /\ W(v).line = NoLine
  BY <1>3, OneHasTheFile
<1> QED BY <1>0, <1>1, <1>4, <1>6, <1>7, <1>8, <1>9, WriterStep

LEMMA RebuildStep == ASSUME LogInv, NEW w \in LogWriters, RebuildIndex(w) PROVE LogInv'
<1>0. /\ W(w) \in WriterRows /\ WriterOK(w, W(w)) /\ Writes(W(w)) /\ W(w).line = NoLine
      /\ LogTyped /\ rl_file \in LogFiles
  BY DEF LogInv, LogTyped, W, RebuildIndex, Idle, Writes
<1>1. rl_file' = Truncated /\ UNCHANGED <<rl_lock, rl_acked, rl_lines>>
  BY DEF RebuildIndex
<1>2. PICK row \in WriterRows :
         /\ Becomes(w, row) /\ Writes(row) /\ row.line = NoLine
         /\ \/ row = W(w) /\ Truncated = rl_file
            \/ row.offset = CompleteBytes
  <2>1. CASE Truncated = rl_file
    BY <1>0, <2>1 DEF RebuildIndex
  <2>2. CASE Truncated # rl_file
    <3> DEFINE lines == Cardinality(LineEnds)
               row == [W(w) EXCEPT !.offset = CompleteBytes, !.seq = lines]
    <3>1. lines \in Nat /\ CompleteBytes \in Nat
      <4>1. DOMAIN rl_file = 1 .. Len(rl_file) /\ Len(rl_file) \in Nat
        BY <1>0 DEF LogFiles
      <4>2. IsFiniteSet(DOMAIN rl_file)
        BY <4>1, FS_Interval
      <4>3. LineEnds \in SUBSET (DOMAIN rl_file)
        BY DEF LineEnds
      <4> QED BY <4>2, <4>3, Truncation, FS_Subset, FS_CardinalityType
    <3>2. Becomes(w, row)
      BY <2>2 DEF RebuildIndex
    <3> HIDE DEF lines
    <3>3. row \in WriterRows /\ row.at = W(w).at /\ row.offset = CompleteBytes /\ row.line = NoLine
      BY <1>0, <3>1 DEF WriterRows
    <3> HIDE DEF row
    <3> QED BY <1>0, <3>2, <3>3 DEF Writes
  <2> QED BY <2>1, <2>2
<1>3. WriterOK(w, row)'
  <2>1. rl_lock = w
    BY <1>0 DEF WriterOK
  <2>2. CASE row = W(w) /\ Truncated = rl_file
    BY <1>0, <1>1, <1>2, <2>1, <2>2 DEF WriterOK
  <2>3. CASE row.offset = CompleteBytes
    BY <1>1, <1>2, <2>1, <2>3, Truncation, RepairKeeps DEF WriterOK
  <2> QED BY <1>2, <2>2, <2>3
<1>4. \A p \in rl_acked' : PlaceKept(p, rl_file')
  BY <1>1, RepairKeeps
<1>5. \A v \in LogWriters \ {w} : ~Writes(W(v)) /\ W(v).line = NoLine
  BY <1>0, OneHasTheFile
<1>6. /\ rl_file' \in LogFiles /\ rl_lock' \in {0} \cup LogWriters
      /\ rl_acked' \subseteq LinePlaces /\ rl_lines' \in Nat
  BY <1>0, <1>1, Truncation DEF LogTyped
<1> QED BY <1>2, <1>3, <1>4, <1>5, <1>6, WriterStep

\* The writer goes: in order, with its lock; or it dies, and the lock file stays.
LEMMA WriterGoes ==
    ASSUME LogInv, NEW w \in LogWriters, LogClosed(w) \/ WriterCrashes(w) PROVE LogInv'
<1>1. /\ Writes(W(w)) /\ UNCHANGED <<rl_file, rl_acked, rl_lines>>
      /\ rl_lock' = 0 \/ rl_lock' = rl_lock
  BY DEF LogClosed, WriterCrashes, Writes
<1>2. PICK row \in WriterRows : Becomes(w, row) /\ ~Writes(row) /\ row.line = NoLine
  <2> DEFINE dead == [NoWriter EXCEPT !.at = "dead"]
  <2>1. Becomes(w, NoWriter) \/ Becomes(w, dead)
    BY DEF LogClosed, WriterCrashes
  <2>2. <<>> \in Queues /\ NoLine \in Lines /\ 0 \in 0 .. 2
    BY DEF Queues, Lines
  <2>3. NoWriter \in WriterRows /\ ~Writes(NoWriter) /\ NoWriter.line = NoLine
    BY <2>2 DEF NoWriter, WriterRows, Writes
  <2>4. dead \in WriterRows /\ ~Writes(dead) /\ dead.line = NoLine
    BY <2>2 DEF NoWriter, WriterRows, Writes
  <2> HIDE DEF dead
  <2> QED BY <2>1, <2>3, <2>4
<1>3. WriterOK(w, row)'
  BY <1>2 DEF WriterOK
<1>4. rl_lock' \in {0} \cup LogWriters /\ rl_lines' \in Nat
  BY <1>1 DEF LogInv, LogTyped
<1> QED BY <1>1, <1>2, <1>3, <1>4, WriterAlone

LEMMA LogStep == LogInv /\ [LogNext]_rlVars => LogInv'
<1> SUFFICES ASSUME LogInv, [LogNext]_rlVars PROVE LogInv'
  OBVIOUS
<1>1. CASE UNCHANGED rlVars
  BY <1>1 DEF rlVars, LogInv, LogTyped, AcknowledgedLinesSurvive, WriterOK
<1>2. CASE RemoveLock
  <2>1. \A w \in LogWriters : ~Writes(rl_writer[w])
    BY <1>2, LogAssumption DEF RemoveLock, LogInv, WriterOK, Writes, W
  <2>2. rl_lock' = 0 /\ UNCHANGED <<rl_file, rl_writer, rl_acked, rl_lines>>
    BY <1>2 DEF RemoveLock
  <2>3. ASSUME NEW w \in LogWriters PROVE WriterOK(w, rl_writer[w])'
    BY <2>1, <2>2 DEF LogInv, WriterOK
  <2>4. AcknowledgedLinesSurvive'
    BY <2>2 DEF LogInv, AcknowledgedLinesSurvive
  <2> QED BY <2>2, <2>3, <2>4 DEF LogInv, LogTyped
<1>3. CASE LogNext
  BY <1>2, <1>3, OpenStep, QuietStep, WriteStep, FinishStep, RebuildStep, WriterGoes DEF LogNext
<1> QED BY <1>1, <1>3

LEMMA LogInitially == LogInit => LogInv
<1> SUFFICES ASSUME LogInit PROVE LogInv
  OBVIOUS
<1>1. <<>> \in Queues /\ NoLine \in Lines /\ 0 \in 0 .. 2 /\ <<>> \in LogFiles
  BY DEF Queues, Lines, LogFiles
<1>2. NoWriter \in WriterRows /\ ~Writes(NoWriter) /\ NoWriter.line = NoLine
  BY <1>1 DEF NoWriter, WriterRows, Writes
<1>3. LogTyped
  BY <1>1, <1>2 DEF LogInit, LogTyped
<1>4. \A w \in LogWriters : WriterOK(w, rl_writer[w])
  BY <1>2 DEF LogInit, WriterOK
<1> QED BY <1>3, <1>4 DEF LogInit, LogInv, AcknowledgedLinesSurvive

\* JsonlLog: whoever writes, fails, crashes or repairs after an append has been
\* acknowledged, for any number of writers and lines.
THEOREM AcknowledgedLinesStay == LogSpec => []AcknowledgedLinesSurvive
<1>1. LogInv => AcknowledgedLinesSurvive
  BY DEF LogInv
<1> QED BY <1>1, LogInitially, LogStep, PTL DEF LogSpec
-----------------------------------------------------------------------------
(* Types of the components around a run, and of them together.  Each has them by  *)
(* the invariant it already keeps, and a few facts more.                          *)

LEMMA PromptTypes == PromptInv /\ GrokTypeOK /\ [GrokNext]_grVars => GrokTypeOK'
<1> SUFFICES ASSUME PromptInv, GrokTypeOK, [GrokNext]_grVars PROVE GrokTypeOK'
  OBVIOUS
<1>1. PromptInv'
  BY PromptStep
<1>2. gr_auth' \in {"issued", "used"} /\ gr_held' \in BOOLEAN
  BY DEF GrokTypeOK, GrokNext, grVars, RefusesLaunch, ConsumesAuthorization, StagesDirectory,
         OpensFile, WritesFile, VerifiesFile, BuildFails, RecordsSession, StartsAgent, Holds,
         AgentEnds, Calls, StopReturns, WaitReturns, CleansUpAbandoned, ProgramDies
<1>3. ASSUME NEW removal, CleansUpBinding(removal) PROVE gr_file' \in {"none", "empty", "full"}
  BY <1>3 DEF GrokTypeOK, CleansUpBinding, Removes
<1>4. gr_file' \in {"none", "empty", "full"}
  BY <1>3 DEF GrokTypeOK, GrokNext, grVars, RefusesLaunch, ConsumesAuthorization, StagesDirectory,
         OpensFile, WritesFile, VerifiesFile, BuildFails, RecordsSession, StartsAgent, Holds,
         AgentEnds, Calls, StopReturns, WaitReturns, CleansUpAbandoned, ProgramDies, Removes
<1>5. gr_at' \in Launching \cup {"running", "refused", "refused_with_file", "crashed"}
  BY DEF GrokTypeOK, GrokNext, grVars, RefusesLaunch, ConsumesAuthorization, StagesDirectory,
         OpensFile, WritesFile, VerifiesFile, BuildFails, RecordsSession, StartsAgent, Holds,
         AgentEnds, Calls, StopReturns, WaitReturns, CleansUpAbandoned, ProgramDies, Refused, Launching
<1>6. gr_agent' \in {"none", "running"} \cup Ended
  BY DEF GrokTypeOK, GrokNext, grVars, RefusesLaunch, ConsumesAuthorization, StagesDirectory,
         OpensFile, WritesFile, VerifiesFile, BuildFails, RecordsSession, StartsAgent, Holds,
         AgentEnds, Calls, StopReturns, WaitReturns, CleansUpAbandoned, ProgramDies, Ended
<1> QED BY <1>1, <1>2, <1>4, <1>5, <1>6 DEF PromptInv, GrokTypeOK

\* The clock, the time of each run and the time that is left on each watch.
LaunchTimes == /\ al_time \in [now : 0 .. MaxTime, crashes : 0 .. MaxCrashes]
               /\ al_mem.timers \subseteq LimitedWatches
               /\ \A r \in LaunchRuns : al_run[r].used <= al_time.now

\* A watch that is armed or made shows no more than its limit.
LEMMA ArmedWatches ==
    ASSUME CallsInv, LaunchTimes, NEW r \in LaunchRuns
    PROVE  /\ Armed(r) \subseteq LimitedWatches
           /\ <<r, "force", GraceUnits>> \in LimitedWatches
<1>1. /\ TotalUsed \in Nat /\ al_run[r].used \in Nat
      /\ AttemptLimit \in Nat /\ TotalLimit \in Nat /\ GraceUnits \in Nat
  BY LaunchAssumption, TotalTyped DEF CallsInv, CallRows
<1>2. RemainingAttempt(r) \in 0 .. AttemptLimit /\ RemainingTotal \in 0 .. TotalLimit
  BY <1>1 DEF RemainingAttempt, RemainingTotal
<1>3. <<r, "attempt", RemainingAttempt(r)>> \in LimitedWatches
  BY <1>2 DEF LimitedWatches
<1>4. <<r, "total", RemainingTotal>> \in LimitedWatches
  BY <1>2 DEF LimitedWatches
<1>5. <<r, "force", GraceUnits>> \in LimitedWatches
  BY <1>1 DEF LimitedWatches
<1> QED BY <1>3, <1>4, <1>5 DEF Armed, Cancelled, LaunchTimes

LEMMA WatchLimits ==
    ASSUME CallsInv, WatchInv, LaunchTimes, [LaunchNext]_alVars
    PROVE  al_mem'.timers \subseteq LimitedWatches
<1>0. al_mem \in Memories /\ al_mem.timers \subseteq LimitedWatches
  BY DEF WatchInv, LaunchTimes
<1>1. CASE al_mem'.timers \subseteq al_mem.timers
  BY <1>0, <1>1
<1>2. ASSUME NEW r \in LaunchRuns, RunStep(r) PROVE al_mem'.timers \subseteq LimitedWatches
  <2>1. CASE FollowProcess(r)
    <3>1. al_mem'.timers = IF Exhausted THEN al_mem.timers ELSE Armed(r)
      BY <1>0, <2>1 DEF FollowProcess, Memories
    <3> QED BY <1>0, <3>1, ArmedWatches
  <2>2. ASSUME NEW failed \in BOOLEAN, Settles(r, failed) \/ RunEnds(r, failed)
        PROVE  al_mem'.timers = al_mem.timers
    BY <1>0, <2>2 DEF Settles, RunEnds, Memories
  <2>3. CASE ~FollowProcess(r)
    <3>1. al_mem'.timers = al_mem.timers
      BY <1>0, <1>2, <2>2, <2>3 DEF RunStep, Prepare, PrepareRefused, ReserveCall, ReserveRefused,
         EvidenceExpires, AuthorizeForLaunch, AuthorizeRefused, StartProcess, StartProcessFails,
         LosesRun, Refuse, Memories
    <3> QED BY <1>0, <3>1
  <2> QED BY <2>1, <2>3
<1>3. CASE Tick
  <2>1. al_mem'.timers = {<<t[1], t[2], t[3] - 1>> : t \in al_mem.timers}
    BY <1>0, <1>3 DEF Tick, Memories
  <2>2. ASSUME NEW t \in al_mem.timers PROVE <<t[1], t[2], t[3] - 1>> \in LimitedWatches
    <3>1. t \in LimitedWatches /\ t[3] # 0
      BY <1>0, <1>3 DEF Tick, Due
    <3>2. AttemptLimit \in Nat /\ TotalLimit \in Nat /\ GraceUnits \in Nat
      BY LaunchAssumption
    <3> QED BY <3>1, <3>2 DEF LimitedWatches
  <2> QED BY <2>1, <2>2
<1>4. ASSUME NEW t \in al_mem.timers, TimerFires(t) PROVE al_mem'.timers \subseteq LimitedWatches
  <2> DEFINE r == t[1]
             rest == al_mem.timers \ {t}
  <2>1. r \in LaunchRuns
    BY <1>0 DEF LimitedWatches
  <2>2. CASE BeginStop(r, rest)
    BY <1>0, <2>1, <2>2, ArmedWatches DEF BeginStop, Memories
  <2>3. CASE ~BeginStop(r, rest)
    <3>1. al_mem'.timers \in {rest, Armed(r)}
      BY <1>0, <1>4, <2>3 DEF TimerFires, Memories
    <3> QED BY <1>0, <2>1, <3>1, ArmedWatches
  <2> QED BY <2>2, <2>3
<1>5. ASSUME NEW t \in al_mem.timers, ForceFires(t) PROVE al_mem'.timers \subseteq LimitedWatches
  BY <1>0, <1>5 DEF ForceFires, Memories
<1>6. CASE AppCrashes
  BY <1>6 DEF AppCrashes
<1>7. CASE ResumePendingStop
  <2>1. PICK r \in LaunchRuns : al_mem' = Reissued(r)
    BY <1>0, <1>7, FirstIntent
  <2>2. al_mem'.timers = al_mem.timers \cup {<<r, "force", GraceUnits>>}
    BY <1>0, <2>1 DEF Memories, Reissued
  <2> QED BY <1>0, <2>2, ArmedWatches
<1>8. CASE Recover \/ UNCHANGED alVars
  BY <1>0, <1>8 DEF Recover, alVars
<1> QED BY <1>2, <1>3, <1>4, <1>5, <1>6, <1>7, <1>8 DEF LaunchNext

\* Only time makes a run's time longer.
LEMMA TimesStep ==
    CallsInv /\ WatchInv /\ LaunchTimes /\ [LaunchNext]_alVars => LaunchTimes'
<1> SUFFICES ASSUME CallsInv, WatchInv, LaunchTimes, [LaunchNext]_alVars PROVE LaunchTimes'
  OBVIOUS
<1>0. /\ al_run \in [LaunchRuns -> CallRows] /\ MaxTime \in Nat /\ MaxCrashes \in Nat
      /\ al_time \in [now : 0 .. MaxTime, crashes : 0 .. MaxCrashes]
      /\ \A r \in LaunchRuns : al_run[r].used \in Nat /\ al_run[r].used <= al_time.now
  BY LaunchAssumption DEF CallsInv, CallRows, LaunchTimes
<1>1. al_mem'.timers \subseteq LimitedWatches
  BY WatchLimits
<1>2. ASSUME al_time'.now = al_time.now, al_time' \in [now : 0 .. MaxTime, crashes : 0 .. MaxCrashes],
             \A r \in LaunchRuns : al_run'[r].used = al_run[r].used
      PROVE  LaunchTimes'
  BY <1>0, <1>1, <1>2 DEF LaunchTimes
<1>3. ASSUME NEW r \in LaunchRuns, RunStep(r) PROVE LaunchTimes'
  <2>1. UNCHANGED al_time
    <3>1. ASSUME NEW failed \in BOOLEAN, Settles(r, failed) \/ RunEnds(r, failed)
          PROVE  UNCHANGED al_time
      BY <3>1 DEF Settles, RunEnds
    <3> QED BY <1>3, <3>1 DEF RunStep, Prepare, PrepareRefused, ReserveCall, ReserveRefused,
               EvidenceExpires, AuthorizeForLaunch, AuthorizeRefused, StartProcess,
               StartProcessFails, FollowProcess, LosesRun, Refuse
  <2>2. ASSUME NEW q \in LaunchRuns PROVE al_run'[q].used = al_run[q].used
    <3>1. ASSUME NEW failed \in BOOLEAN, Settles(r, failed) \/ RunEnds(r, failed)
          PROVE  al_run'[q].used = al_run[q].used
      BY <1>0, <3>1 DEF Settles, RunEnds, RunEnded, IntervalClosed, CallRows
    <3>2. ASSUME NEW kind, Prepare(r, kind) PROVE al_run'[q].used = al_run[q].used
      BY <1>0, <3>2 DEF Prepare, PutEvidence, CallRows
    <3> QED BY <1>0, <1>3, <3>1, <3>2 DEF RunStep, PrepareRefused, ReserveCall, ReserveRefused,
               EvidenceExpires, AuthorizeForLaunch, AuthorizeRefused, StartProcess,
               StartProcessFails, FollowProcess, LosesRun, Refuse, RunEnded, CallRows
  <2> QED BY <1>0, <1>2, <2>1, <2>2
<1>4. CASE Tick
  <2>1. /\ al_time'.now = al_time.now + 1 /\ al_time.now < MaxTime
        /\ al_time' \in [now : 0 .. MaxTime, crashes : 0 .. MaxCrashes]
    BY <1>0, <1>4 DEF Tick
  <2>2. ASSUME NEW r \in LaunchRuns PROVE al_run'[r].used <= al_run[r].used + 1
    BY <1>0, <1>4 DEF Tick, CallRows
  <2>3. ASSUME NEW r \in LaunchRuns PROVE al_run'[r].used <= al_time'.now
    <3>1. al_run'[r].used \in {al_run[r].used, al_run[r].used + 1}
      BY <1>0, <1>4 DEF Tick, CallRows
    <3> QED BY <1>0, <2>1, <3>1
  <2> QED BY <1>1, <2>1, <2>3 DEF LaunchTimes
<1>5. ASSUME NEW t \in al_mem.timers, TimerFires(t) \/ ForceFires(t) PROVE LaunchTimes'
  <2>1. t[1] \in LaunchRuns
    BY DEF LaunchTimes, LimitedWatches
  <2>2. UNCHANGED al_time /\ \A r \in LaunchRuns : al_run'[r].used = al_run[r].used
    BY <1>0, <1>5, <2>1 DEF TimerFires, ForceFires, BeginStop, CallRows
  <2> QED BY <1>0, <1>2, <2>2
<1>6. CASE AppCrashes
  <2>1. /\ al_time'.now = al_time.now
        /\ al_time' \in [now : 0 .. MaxTime, crashes : 0 .. MaxCrashes]
    BY <1>0, <1>6 DEF AppCrashes
  <2>2. ASSUME NEW r \in LaunchRuns PROVE al_run'[r].used = al_run[r].used
    <3> DEFINE run == (IF r = CurrentRun THEN RunEnded(al_run, r, "lost") ELSE al_run)[r]
    <3>1. al_run'[r].used = run.used
      <4>1. run \in CallRows
        <5>1. CASE r = CurrentRun
          <6> DEFINE was == al_run[r]
          <6>1. was \in CallRows
            BY <1>0
          <6>2. run = [was EXCEPT !.phase = "lost", !.evidence = "none", !.ready = "none",
                                  !.auth = "none"]
            BY <1>0, <5>1 DEF RunEnded
          <6> HIDE DEF was, run
          <6> QED BY <6>1, <6>2 DEF CallRows
        <5>2. CASE r # CurrentRun
          BY <1>0, <5>2
        <5> QED BY <5>1, <5>2
      <4>2. al_run'[r] = [run EXCEPT !.proc = IF @ = "alive" THEN "unproven" ELSE @]
        BY <1>6 DEF AppCrashes
      <4> HIDE DEF run
      <4> QED BY <4>1, <4>2 DEF CallRows
    <3>2. run.used = al_run[r].used
      BY <1>0 DEF RunEnded, CallRows
    <3> QED BY <3>1, <3>2
  <2> QED BY <1>2, <2>1, <2>2
<1>7. CASE Recover \/ ResumePendingStop \/ UNCHANGED alVars
  <2>1. UNCHANGED <<al_run, al_time>>
    BY <1>7 DEF Recover, ResumePendingStop, alVars
  <2> QED BY <1>0, <1>2, <2>1
<1> QED BY <1>3, <1>4, <1>5, <1>6, <1>7 DEF LaunchNext

LEMMA LaunchTypes == CallsInv /\ WatchInv /\ LaunchTimes => LaunchTypeOK
<1> SUFFICES ASSUME CallsInv, WatchInv, LaunchTimes PROVE LaunchTypeOK
  OBVIOUS
<1>1. ASSUME NEW r \in LaunchRuns PROVE al_run[r].used \in 0 .. MaxTime
  BY LaunchAssumption DEF CallsInv, CallRows, LaunchTimes
<1> QED BY <1>1 DEF LaunchTypeOK, CallsInv, CallRows, Budgets, WatchInv, Memories, LaunchTimes

\* What the worker threads post, and the task that waits for an attempt.
Mails == Outcomes \cup {"worker_failed", "garbled", "error", "exit"}
MailInv == /\ aw_mail \in Seq(Mails)
           /\ aw_task.state = "running" <=> aw_task.attempt # 0

LEMMA MailStep == WorkersInv /\ MailInv /\ [WorkersNext]_awVars => MailInv'
<1> SUFFICES ASSUME WorkersInv, MailInv, [WorkersNext]_awVars PROVE MailInv'
  OBVIOUS
<1>0. aw_mail \in Seq(Mails) /\ aw_task \in TaskRows /\ aw_mgr \in Managers
  BY DEF MailInv, WorkersInv, TypedWorkers
<1>1. aw_mail' \in Seq(Mails)
  <2>1. ASSUME NEW s, NEW messages \in Seq(Mails), Post(s, messages) PROVE aw_mail' \in Seq(Mails)
    BY <1>0, <2>1 DEF Post
  <2>2. /\ <<>> \in Seq(Mails) /\ <<"worker_failed", "failed">> \in Seq(Mails)
        /\ <<"worker_failed">> \in Seq(Mails) /\ <<"garbled">> \in Seq(Mails)
        /\ <<>> \o <<"exit">> \in Seq(Mails) /\ <<"error">> \o <<"exit">> \in Seq(Mails)
        /\ \A outcome \in Outcomes : <<outcome>> \in Seq(Mails)
    BY DEF Mails, Outcomes
  <2>3. CASE UNCHANGED aw_mail
    BY <1>0, <2>3
  <2>4. ASSUME NEW s \in Sessions, FailRun(s) \/ Complain(s) \/ PostGarbled(s) \/ Crash(s)
                     \/ \E outcome \in Outcomes : PostRunExited(s, outcome)
        PROVE  aw_mail' \in Seq(Mails)
    BY <2>1, <2>2, <2>4 DEF FailRun, Complain, PostGarbled, Crash, PostRunExited
  <2>5. ASSUME NEW s \in Sessions, OnWorkerMessage(s) PROVE aw_mail' \in Seq(Mails)
    BY <1>0, <2>5 DEF OnWorkerMessage
  <2>6. CASE aw_mail' = <<>>
    BY <2>2, <2>6
  <2> QED BY <2>3, <2>4, <2>5, <2>6 DEF WorkersNext, awVars, ReceiveStartRun, Thread, Hang,
             HeartbeatTimeout, FailureLogged, FailureUnlogged, ThreadTerminated,
             AllowReplacementAfterReconcile, StartRun, StartWorker, Close, CloseEnds, TaskEnters,
             TaskLeaves
<1>2. (aw_task.state = "running" <=> aw_task.attempt # 0)'
  <2>1. CASE UNCHANGED aw_task
    BY <2>1 DEF MailInv
  <2>2. ASSUME NEW s \in Sessions, FailureLogged(s)
        PROVE  (aw_task.state = "running" <=> aw_task.attempt # 0)'
    BY <2>2 DEF FailureLogged, MoveTaskToRecoverableState, MailInv
  <2>3. CASE TaskEnters
    BY <1>0, <2>3, WorkersAssumption DEF TaskEnters, Managers
  <2>4. CASE TaskLeaves
    BY <2>4 DEF TaskLeaves
  <2> QED BY <2>1, <2>2, <2>3, <2>4 DEF WorkersNext, awVars, ReceiveStartRun, Thread, FailRun,
             Complain, PostGarbled, PostRunExited, Hang, Crash, OnWorkerMessage, HeartbeatTimeout,
             FailureUnlogged, ThreadTerminated, AllowReplacementAfterReconcile, StartRun,
             StartWorker, Close, CloseEnds
<1> QED BY <1>1, <1>2 DEF MailInv

\* The database is there or not, and faults are counted.
FaultsInv == ap_db \in {"none", "open", "closed"} /\ ap_faults \in 0 .. MaxFaults

LEMMA FaultsStep == FaultsInv /\ [LifecycleNext]_apVars => FaultsInv'
<1> SUFFICES ASSUME FaultsInv, [LifecycleNext]_apVars PROVE FaultsInv'
  OBVIOUS
<1>1. CASE UNCHANGED apVars
  BY <1>1 DEF apVars, FaultsInv
<1>2. CASE \/ OpensDatabase \/ ConstructsBudget \/ ProbesCapabilities \/ Reconciles \/ ComposeThrows
           \/ SelectsProject \/ ContinuesTask \/ RecoversTask \/ RequestsExit \/ ConfirmsTermination
           \/ ClosesWorkers \/ ClosesDatabase \/ RenderEnds \/ RetriesShutdown
  BY <1>2 DEF FaultsInv, OpensDatabase, ConstructsBudget, ProbesCapabilities, Reconciles,
     ComposeThrows, SelectsProject, ContinuesTask, RecoversTask, RequestsExit, ConfirmsTermination,
     ClosesWorkers, ClosesDatabase, RenderEnds, RetriesShutdown
<1>3. ASSUME NEW t, \/ LaunchesAgent(t) \/ AgentExits(t) \/ Records(t) \/ DriveEnds(t)
                    \/ CreatesTask(t) \/ RuntimeCreated(t) \/ SessionReleased(t)
      PROVE  FaultsInv'
  <2>1. UNCHANGED <<ap_db, ap_faults>>
    <3>1. CASE LaunchesAgent(t) \/ AgentExits(t) \/ Records(t)
      BY <3>1 DEF LaunchesAgent, AgentExits, Records
    <3>2. CASE DriveEnds(t)
      BY <3>2 DEF DriveEnds
    <3>3. CASE CreatesTask(t) \/ RuntimeCreated(t)
      BY <3>3 DEF CreatesTask, RuntimeCreated
    <3>4. CASE SessionReleased(t)
      BY <3>4 DEF SessionReleased
    <3> QED BY <1>3, <3>1, <3>2, <3>3, <3>4
  <2> QED BY <2>1 DEF FaultsInv
<1>5. CASE FindsRuns \/ \E t \in AllTasks : EndsRun(t)
  BY <1>5 DEF FindsRuns, EndsRun, FaultsInv
<1>4. CASE CleansUp \/ WorkersClosed \/ AuthorisesExit
  <2>1. UNCHANGED ap_db /\ (UNCHANGED ap_faults \/ Fault)
    <3>1. CASE CleansUp
      BY <3>1, Zenon DEF CleansUp
    <3>2. CASE WorkersClosed
      BY <3>2, Zenon DEF WorkersClosed
    <3>3. CASE AuthorisesExit
      BY <3>3, Zenon DEF AuthorisesExit
    <3> QED BY <1>4, <3>1, <3>2, <3>3
  <2> QED BY <2>1, LifecycleAssumption DEF FaultsInv, Fault
<1> QED BY <1>1, <1>2, <1>3, <1>4, <1>5 DEF LifecycleNext

\* The lines of the file, of the index and of the queues are those of the behaviour.
TypedCells == [id : LineIds, of : Lengths, part : Lengths, seq : Nat]
NewLines == Lines \ {NoLine}
LinesInv == /\ rl_file \in Seq(TypedCells) /\ rl_lines \in 0 .. MaxLines
            /\ rl_acked \subseteq Places /\ rl_index \subseteq Places
            /\ \A w \in LogWriters : rl_writer[w].queue \in Seq(NewLines)

LEMMA NewLinesAre == NewLines = [id : LineIds, of : Lengths]
<1>1. NoLine \notin [id : LineIds, of : Lengths]
  BY LogAssumption DEF NoLine, LineIds
<1> QED BY <1>1 DEF NewLines, Lines

\* What a repair leaves of the file, and what it tells the index of it.
LEMMA RepairTypes ==
    ASSUME LogInv, LinesInv
    PROVE  Truncated \in Seq(TypedCells) /\ Entries \subseteq Places
<1>1. rl_file \in Seq(TypedCells) /\ Len(rl_file) \in Nat /\ DOMAIN rl_file = 1 .. Len(rl_file)
  BY DEF LinesInv
<1>2. Truncated \in Seq(TypedCells)
  BY <1>1, Truncation DEF Truncated
<1>3. ASSUME NEW e \in LineEnds
      PROVE  [id |-> rl_file[e].id, of |-> rl_file[e].of, seq |-> Number(e),
              offset |-> Begin(e) - 1] \in Places
  <2>1. e \in 1 .. Len(rl_file) /\ rl_file[e] \in TypedCells /\ LineEnds \in SUBSET Nat
    BY <1>1 DEF LineEnds
  <2>2. Number(e) \in Nat
    <3>1. IsFiniteSet(DOMAIN rl_file) /\ {d \in LineEnds : d <= e} \in SUBSET (DOMAIN rl_file)
      BY <1>1, FS_Interval DEF LineEnds
    <3> QED BY <3>1, FS_Subset, FS_CardinalityType DEF Number
  <2>3. Begin(e) - 1 \in Nat
    <3> DEFINE smaller == {d \in LineEnds : d < e}
               before == {0} \cup smaller
    <3>1. e \in Nat /\ 0 <= e /\ \A d \in smaller : d \in Nat /\ d <= e
      BY <1>1, <2>1
    <3> HIDE DEF smaller
    <3>2. before \in SUBSET Nat /\ before # {} /\ \A d \in before : d <= e
      BY <3>1
    <3>3. Max(before) \in Nat
      BY <3>1, <3>2, GreatestOne
    <3> QED BY <3>3 DEF Begin, smaller
  <2> HIDE DEF Number, Begin
  <2> QED BY <2>1, <2>2, <2>3 DEF TypedCells, Places
<1> QED BY <1>2, <1>3 DEF Entries

LEMMA ElementReplaced ==
    ASSUME NEW S, NEW s \in Seq(S), NEW n, NEW e \in S PROVE [s EXCEPT ![n] = e] \in Seq(S)
<1>1. DOMAIN s = 1 .. Len(s) /\ Len(s) \in Nat /\ s \in [1 .. Len(s) -> S]
  OBVIOUS
<1>2. [s EXCEPT ![n] = e] \in [1 .. Len(s) -> S]
  BY <1>1
<1> QED BY <1>1, <1>2

\* One writer changes, to a row whose queue is of lines.
LEMMA QueuesTyped ==
    ASSUME LogInv, LinesInv, NEW w \in LogWriters, NEW row, Becomes(w, row),
           row.queue \in Seq(NewLines)
    PROVE  \A v \in LogWriters : rl_writer'[v].queue \in Seq(NewLines)
BY DEF LogInv, LogTyped, LinesInv, Becomes

LEMMA LinesStep == LogInv /\ LinesInv /\ [LogNext]_rlVars => LinesInv'
<1> SUFFICES ASSUME LogInv, LinesInv, [LogNext]_rlVars PROVE LinesInv'
  OBVIOUS
<1>0. /\ rl_file \in Seq(TypedCells) /\ rl_lines \in 0 .. MaxLines /\ MaxLines \in Nat
      /\ rl_acked \subseteq Places /\ rl_index \subseteq Places
      /\ <<>> \in Seq(NewLines) /\ NoWriter.queue = <<>>
  BY LogAssumption DEF LinesInv, NoWriter
<1>1. CASE UNCHANGED rlVars \/ RemoveLock
  BY <1>1 DEF rlVars, RemoveLock, LinesInv
<1>2. ASSUME NEW w \in LogWriters, Open(w) PROVE LinesInv'
  <2>1. \A v \in LogWriters : rl_writer'[v].queue \in Seq(NewLines)
    BY <1>0, <1>2, QueuesTyped DEF Open, NoWriter
  <2> QED BY <1>0, <1>2, <2>1, RepairTypes DEF Open, LinesInv
<1>3. ASSUME NEW w \in LogWriters, NEW length \in Lengths, Enqueue(w, length) PROVE LinesInv'
  <2> DEFINE line == [id |-> rl_lines + 1, of |-> length]
  <2>1. line \in NewLines /\ rl_lines' \in 0 .. MaxLines
    BY <1>0, <1>3, NewLinesAre DEF Enqueue, LineIds
  <2>2. W(w).queue \in Seq(NewLines) /\ W(w) \in WriterRows
    BY DEF LinesInv, W, LogInv, LogTyped
  <2>3. Append(W(w).queue, line) \in Seq(NewLines)
    BY <2>1, <2>2
  <2>4. [W(w) EXCEPT !.queue = Append(@, line)].queue = Append(W(w).queue, line)
    BY <2>2 DEF WriterRows
  <2>5. Becomes(w, [W(w) EXCEPT !.queue = Append(@, line)])
    BY <1>3 DEF Enqueue
  <2> HIDE DEF line
  <2>6. \A v \in LogWriters : rl_writer'[v].queue \in Seq(NewLines)
    BY <2>3, <2>4, <2>5, QueuesTyped
  <2> QED BY <1>0, <1>3, <2>1, <2>6 DEF Enqueue, LinesInv
<1>4. ASSUME NEW w \in LogWriters,
             BeginAppend(w) \/ FailAppend(w) \/ CloseLog(w) \/ LogClosed(w) \/ WriterCrashes(w)
      PROVE  LinesInv'
  <2>1. W(w).queue \in Seq(NewLines) /\ W(w) \in WriterRows
    BY DEF LinesInv, W, LogInv, LogTyped
  <2>2. PICK row : Becomes(w, row) /\ row.queue \in Seq(NewLines)
    <3>1. CASE BeginAppend(w)
      <4> DEFINE rest == Tail(W(w).queue)
                 row == [W(w) EXCEPT !.line = Head(W(w).queue), !.queue = rest, !.written = 0]
      <4>1. rest \in Seq(NewLines) /\ Becomes(w, row)
        BY <2>1, <3>1 DEF BeginAppend
      <4>2. row.queue = rest
        BY <2>1 DEF WriterRows
      <4> HIDE DEF row
      <4> QED BY <4>1, <4>2
    <3>2. CASE FailAppend(w)
      <4> DEFINE row == [W(w) EXCEPT !.unusable = TRUE, !.line = NoLine]
      <4>1. Becomes(w, row) /\ row.queue = W(w).queue
        BY <2>1, <3>2 DEF FailAppend, WriterRows
      <4> HIDE DEF row
      <4> QED BY <2>1, <4>1
    <3>3. CASE CloseLog(w)
      <4> DEFINE row == [W(w) EXCEPT !.at = "closing"]
      <4>1. Becomes(w, row) /\ row.queue = W(w).queue
        BY <2>1, <3>3 DEF CloseLog, WriterRows
      <4> HIDE DEF row
      <4> QED BY <2>1, <4>1
    <3>4. CASE LogClosed(w) \/ WriterCrashes(w)
      <4> DEFINE dead == [NoWriter EXCEPT !.at = "dead"]
      <4>1. Becomes(w, NoWriter) \/ Becomes(w, dead)
        BY <3>4 DEF LogClosed, WriterCrashes
      <4>2. dead.queue = <<>> /\ NoWriter.queue = <<>>
        BY DEF NoWriter
      <4> HIDE DEF dead
      <4> QED BY <1>0, <4>1, <4>2
    <3> QED BY <1>4, <3>1, <3>2, <3>3, <3>4
  <2>3. UNCHANGED <<rl_file, rl_acked, rl_index, rl_lines>>
    BY <1>4 DEF BeginAppend, FailAppend, CloseLog, LogClosed, WriterCrashes
  <2> QED BY <1>0, <2>2, <2>3, QueuesTyped DEF LinesInv
<1>5. ASSUME NEW w \in LogWriters, WriteSome(w) PROVE LinesInv'
  <2> DEFINE line == W(w).line
             part == W(w).written + 1
             cell == [id |-> line.id, of |-> line.of, part |-> part, seq |-> W(w).seq + 1]
  <2>1. W(w).queue \in Seq(NewLines) /\ W(w) \in WriterRows
    BY DEF LinesInv, W, LogInv, LogTyped
  <2>2. cell \in TypedCells
    <3>1. line \in NewLines /\ part <= line.of /\ W(w).written \in 0 .. 2 /\ W(w).seq \in Nat
      BY <1>5, <2>1 DEF WriteSome, WriterRows, NewLines
    <3> QED BY <3>1, NewLinesAre DEF Lengths, TypedCells
  <2>3. /\ \/ rl_file' = [rl_file EXCEPT ![W(w).offset + part] = cell]
           \/ rl_file' = Append(rl_file, cell)
        /\ Becomes(w, [W(w) EXCEPT !.written = part])
        /\ UNCHANGED <<rl_acked, rl_index, rl_lines>>
    BY <1>5 DEF WriteSome
  <2> HIDE DEF cell
  <2>4. rl_file' \in Seq(TypedCells)
    <3>1. CASE rl_file' = Append(rl_file, cell)
      BY <1>0, <2>2, <3>1
    <3>2. CASE rl_file' = [rl_file EXCEPT ![W(w).offset + part] = cell]
      BY <1>0, <2>2, <3>2, ElementReplaced
    <3> QED BY <2>3, <3>1, <3>2
  <2>5. \A v \in LogWriters : rl_writer'[v].queue \in Seq(NewLines)
    BY <2>1, <2>3, QueuesTyped DEF WriterRows
  <2> QED BY <1>0, <2>3, <2>4, <2>5 DEF LinesInv
<1>6. ASSUME NEW w \in LogWriters, FinishAppend(w) PROVE LinesInv'
  <2> DEFINE place == [id |-> W(w).line.id, of |-> W(w).line.of,
                       seq |-> W(w).seq + 1, offset |-> W(w).offset]
  <2>1. W(w).queue \in Seq(NewLines) /\ W(w) \in WriterRows
    BY DEF LinesInv, W, LogInv, LogTyped
  <2>2. place \in Places
    <3>1. W(w).line \in NewLines /\ W(w).seq \in Nat /\ W(w).offset \in Nat
      BY <1>6, <2>1 DEF FinishAppend, WriterRows, NewLines
    <3> QED BY <3>1, NewLinesAre DEF Places
  <2>3. /\ rl_acked' = rl_acked \cup {place} /\ rl_index' \in {rl_index, rl_index \cup {place}}
        /\ UNCHANGED <<rl_file, rl_lines>>
        /\ Becomes(w, [W(w) EXCEPT !.seq = @ + 1, !.offset = NextOffset(w), !.line = NoLine])
    BY <1>6 DEF FinishAppend
  <2> HIDE DEF place
  <2>4. \A v \in LogWriters : rl_writer'[v].queue \in Seq(NewLines)
    BY <2>1, <2>3, QueuesTyped DEF WriterRows
  <2> QED BY <1>0, <2>2, <2>3, <2>4 DEF LinesInv
<1>7. ASSUME NEW w \in LogWriters, RebuildIndex(w) PROVE LinesInv'
  <2>1. W(w).queue \in Seq(NewLines) /\ W(w) \in WriterRows
    BY DEF LinesInv, W, LogInv, LogTyped
  <2>2. PICK row : Becomes(w, row) /\ row.queue = W(w).queue
    <3> DEFINE row == [W(w) EXCEPT !.offset = CompleteBytes, !.seq = Cardinality(LineEnds)]
    <3>1. Becomes(w, W(w)) \/ Becomes(w, row)
      BY <1>7 DEF RebuildIndex
    <3>2. row.queue = W(w).queue
      BY <2>1 DEF WriterRows
    <3> HIDE DEF row
    <3> QED BY <3>1, <3>2
  <2>3. \A v \in LogWriters : rl_writer'[v].queue \in Seq(NewLines)
    BY <2>1, <2>2, QueuesTyped
  <2> QED BY <1>0, <1>7, <2>3, RepairTypes DEF RebuildIndex, LinesInv
<1> QED BY <1>1, <1>2, <1>3, <1>4, <1>5, <1>6, <1>7 DEF LogNext

LEMMA LogTypes == LogInv /\ LinesInv => LogTypeOK
<1> SUFFICES ASSUME LogInv, LinesInv PROVE LogTypeOK
  OBVIOUS
<1>1. ASSUME NEW w \in LogWriters
      PROVE  rl_writer[w] \in
               [at : {"closed", "open", "closing", "dead"}, seq : Nat, offset : Nat,
                unusable : BOOLEAN, queue : Seq(Lines \ {NoLine}), line : Lines, written : 0 .. 2]
  <2>1. rl_writer[w] \in WriterRows /\ rl_writer[w].queue \in Seq(NewLines)
    BY DEF LogInv, LogTyped, LinesInv
  <2> QED BY <2>1 DEF WriterRows, NewLines
<1> QED BY <1>1 DEF LogTypeOK, LogInv, LogTyped, LinesInv, TypedCells

\* The other types follow from what the components keep.
LEMMA SupervisionTypes == SupervisedInv => SupervisionTypeOK
BY DEF SupervisedInv, SupervisionTypeOK, SupervisedRuns, Hosts, StopModes, Tellings, KnownPids,
       StopNames

LEMMA AppTypes == AppInv /\ FaultsInv => AppTypeOK
BY DEF AppInv, TypedApp, FaultsInv, AppTypeOK, Starts, Lives, Flights, TaskSessions, DrivenTasks,
       Clis

LEMMA WorkersTypes == WorkersInv /\ MailInv => WorkersTypeOK
BY DEF WorkersInv, TypedWorkers, MailInv, WorkersTypeOK, SessionRows, AttemptStates, TaskRows,
       Managers, Mails, Threads

\* What the components keep, each for itself.
RunsInv == /\ PromptInv /\ GrokTypeOK
           /\ CallsInv /\ WatchInv /\ LaunchTimes
           /\ WorkersInv /\ MailInv
           /\ AppInv /\ FaultsInv
           /\ SupervisedInv
           /\ LogInv /\ LinesInv

LEMMA RunsInitially == RunsInit => RunsInv
<1> SUFFICES ASSUME RunsInit PROVE RunsInv
  OBVIOUS
<1>1. SupervisionInit /\ WorkersInit /\ LaunchInit /\ GrokInit /\ LogInit /\ LifecycleInit
  BY DEF RunsInit
<1>2. GrokTypeOK
  BY <1>1 DEF GrokInit, GrokTypeOK, Launching
<1>3. LaunchTimes
  BY <1>1, LaunchAssumption DEF LaunchInit, LaunchTimes
<1>4. MailInv
  BY <1>1 DEF WorkersInit, MailInv
<1>5. FaultsInv
  BY <1>1, LifecycleAssumption DEF LifecycleInit, FaultsInv
<1>6. LinesInv
  <2>1. <<>> \in Seq(TypedCells) /\ <<>> \in Seq(NewLines) /\ 0 \in 0 .. MaxLines
    BY LogAssumption
  <2> QED BY <1>1, <2>1 DEF LogInit, LinesInv, NoWriter
<1> QED BY <1>1, <1>2, <1>3, <1>4, <1>5, <1>6, PromptInitially, CallsInit, WatchInitially,
           WorkersInitially, AppInitially, SupervisedInitially, LogInitially DEF RunsInv

\* A step of the composition is a step of each component, or leaves it alone.
LEMMA RunsStep == RunsInv /\ [RunsNext]_runVars => RunsInv'
<1> SUFFICES ASSUME RunsInv, [RunsNext]_runVars PROVE RunsInv'
  OBVIOUS
<1>1. /\ [SupervisionNext]_psVars /\ [WorkersNext]_awVars /\ [LaunchNext]_alVars
      /\ [GrokNext]_grVars /\ [LogNext]_rlVars /\ [LifecycleNext]_apVars
  BY DEF RunsNext, runVars
<1>2. PromptInv' /\ GrokTypeOK'
  BY <1>1, PromptStep, PromptTypes DEF RunsInv
<1>3. CallsInv' /\ WatchInv' /\ LaunchTimes'
  <2>1. CallsInv'
    BY <1>1, CallsStep DEF RunsInv
  <2> QED BY <1>1, <2>1, WatchStep, TimesStep DEF RunsInv
<1>4. WorkersInv' /\ MailInv'
  BY <1>1, WorkersStep, MailStep DEF RunsInv
<1>5. AppInv' /\ FaultsInv'
  BY <1>1, LifecycleStep, FaultsStep DEF RunsInv
<1>6. SupervisedInv'
  BY <1>1, SupervisedStep DEF RunsInv
<1>7. LogInv' /\ LinesInv'
  BY <1>1, LogStep, LinesStep DEF RunsInv
<1> QED BY <1>2, <1>3, <1>4, <1>5, <1>6, <1>7 DEF RunsInv

\* The records around a run, in memory, in the database and on the disk, keep their
\* shape: the launch and its watches, the process, the worker, the prompt, the log and
\* the program, for any numbers of them.
THEOREM RunsTyped == RunsSpec => []RunsTypeOK
<1>1. RunsInv => RunsTypeOK
  <2>1. RunsInv => SupervisionTypeOK
    BY SupervisionTypes DEF RunsInv
  <2>2. RunsInv => WorkersTypeOK /\ AppTypeOK
    BY WorkersTypes, AppTypes DEF RunsInv
  <2>3. RunsInv => LaunchTypeOK /\ GrokTypeOK /\ LogTypeOK
    BY LaunchTypes, LogTypes DEF RunsInv
  <2> QED BY <2>1, <2>2, <2>3 DEF RunsTypeOK
<1> QED BY <1>1, RunsInitially, RunsStep, PTL DEF RunsSpec
=============================================================================
