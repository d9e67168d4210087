--------------------------- MODULE WorkflowLedger ---------------------------
(* The workflow reducer together with a history of the effects it has asked   *)
(* for.  "ledger" is a history variable: it is computed from the effects of   *)
(* each accepted event and constrains nothing.                                *)
EXTENDS WorkflowEngine

VARIABLE ledger

ledgerVars == <<snapshot, effects, minted, ledger>>

Ledgers == [lock     : BOOLEAN,           \* the last lock effect asked to acquire it
            started  : SUBSET Attempts,   \* attempts a Start effect was issued for
            unfrozen : BOOLEAN,           \* implementation started, candidate not finalised
            promoted : BOOLEAN,           \* promotion was asked for
            parked   : BOOLEAN]           \* the workflow has been in paused_after_run

EmptyLedger == [lock |-> FALSE, started |-> {}, unfrozen |-> FALSE,
                promoted |-> FALSE, parked |-> FALSE]

Asks(fx, type) == \E i \in 1..Len(fx) : fx[i].type = type

StartedBy(fx) == {a \in Attempts : \E i \in 1..Len(fx) :
                      fx[i].type \in StageStarts /\ fx[i].attempt = a}

Recorded(fx, s) ==
    [lock     |-> \/ Asks(fx, "AcquireProjectLock")
                  \/ ledger.lock /\ ~Asks(fx, "ReleaseProjectLock"),
     started  |-> ledger.started \cup StartedBy(fx),
     unfrozen |-> \/ Asks(fx, "StartImplementation")
                  \/ ledger.unfrozen /\ ~Asks(fx, "FinalizeCandidateChangeSet"),
     promoted |-> ledger.promoted \/ Asks(fx, "PromoteCandidateWorkspace"),
     parked   |-> ledger.parked \/ s.state = "paused_after_run"]

LedgerInit == EngineInit /\ ledger = EmptyLedger
LedgerNext == ReducerNext /\ ledger' = Recorded(effects', snapshot')
LedgerSpec == LedgerInit /\ [][LedgerNext]_ledgerVars
-----------------------------------------------------------------------------
\* Every variable keeps the type the rest of the specification relies on.
EngineTypeOK == /\ snapshot \in Snapshots
                /\ effects \in Seq(Effects)
                /\ minted \in 0..MaxAttempts
                /\ ledger \in Ledgers

\* The effects of transition(): the project lock has been asked for whenever
\* work is under way or waits for the user with its work preserved, and has been
\* given back in every terminal state, on whatever path it was reached.
LockDemandFollowsState ==
    /\ IsTerminal(snapshot) \/ snapshot.state = "draft" => ~ledger.lock
    /\ snapshot.state \notin TerminalStates \cup {"draft", "awaiting_user"} => ledger.lock
    /\ snapshot.state = "awaiting_user" =>
          (ledger.lock <=> "retry_environment" \notin snapshot.awaitingActions)

\* The Start effects of one event name attempts no earlier event has started: a
\* stage is never launched twice under one attempt identity, whatever pauses,
\* retries and reworks lie between.
NoAttemptStartsTwice ==
    [][StartedBy(effects') \cap ledger.started = {}]_ledgerVars

\* Past the implementation stage the candidate has been finalised, and a
\* completed task has asked for its promotion: a task that was never parked by a
\* pause cannot skip either step.
OnlyAPauseSkipsCandidateSteps ==
    ~ledger.parked =>
        /\ snapshot.state \in {"reviewing", "master_validation", "completed"} => ~ledger.unfrozen
        /\ snapshot.state = "completed" => ledger.promoted

\* tests/unit/workflow/workflow-properties.test.ts: a transitioned result never
\* carries an invalid snapshot.
TransitionedSnapshotIsValid == ValidSnapshot(snapshot)

\* docs/superpowers/specs/2026-07-12-triagent-design.md, the transition table:
\* entering reviewing after a successful implementation freezes the attempt's
\* result and diff.
ReviewedCandidateIsFrozen == snapshot.state = "reviewing" => ~ledger.unfrozen
=============================================================================
