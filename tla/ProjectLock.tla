----------------------------- MODULE ProjectLock -----------------------------
(* The project lock of src/src/project/project-lock-service.ts over            *)
(* src/src/persistence/lock-repository.ts and transaction.ts: the active rows  *)
(* of the table project_locks in a database that several instances of the      *)
(* program have open.  A row that is released is never a lock again and is     *)
(* left out, and so are the audit records of deletions.                        *)
(*                                                                             *)
(* Acquiring is one transaction, taken apart here into the points where SQLite *)
(* could let another connection in; the other operations are one statement.    *)
(* A root is canonical and both roots are of the machine's own flavor, so the  *)
(* comparison of flavors is left out.  Time is left out but for a lease that   *)
(* is over.                                                                    *)
EXTENDS Naturals, Sequences

CONSTANTS Tasks, Root,
          Instances,  \* connections, one for each instance of the program
          None,       \* no instance and no task
          MaxLocks    \* bound: locks active at a time

ASSUME LockAssumption ==
    /\ None \notin Instances \cup Tasks
    /\ MaxLocks \in Nat
    /\ \A t \in Tasks : Root[t] \in Seq(STRING)

VARIABLES task,     \* task_id of each active lock
          owner,    \* its owner_instance_id
          expired,  \* its lease_expires_at has passed
          phase,    \* where the connection's transaction stands
          wanted,   \* the task the transaction acquires for
          writer    \* connection that holds the database's write lock

rowVars == <<task, owner, expired>>
connectionVars == <<phase, wanted, writer>>
lockVars == <<rowVars, connectionVars>>

LockIds == 1..MaxLocks

\* "begun": the write lock is held; "clear": no conflict was found; "poisoned":
\* the connection is of no more use; "dead": its process is gone.
Phases == {"idle", "begun", "clear", "poisoned", "dead"}
InTransaction(i) == phase[i] \in {"begun", "clear"}

LockTypeOK ==
    /\ task \in [LockIds -> Tasks \cup {None}]
    /\ owner \in [LockIds -> Instances \cup {None}]
    /\ expired \in [LockIds -> BOOLEAN]
    /\ phase \in [Instances -> Phases]
    /\ wanted \in [Instances -> Tasks \cup {None}]
    /\ writer \in Instances \cup {None}

\* isSameOrChild over the names of a path: "repo" contains "repo/a" but not
\* "repo-a".
SameOrChild(parent, candidate) ==
    \E k \in 0..Len(candidate) : SubSeq(candidate, 1, k) = parent

\* Mutation: only the same root conflicts, as an index could tell.
SameRoot(t, u) == Root[t] = Root[u]

\* areProjectRootsOverlapping
Overlap(t, u) == SameOrChild(Root[t], Root[u]) \/ SameOrChild(Root[u], Root[t])

\* Mutation: a lock whose lease is over no longer counts.
ActiveUnlessExpired == {k \in LockIds : task[k] # None /\ ~expired[k]}

\* listActive, whose rows include those with a lease that is over.
ListActive == {k \in LockIds : task[k] # None}
-----------------------------------------------------------------------------
\* acquire

\* Mutation: BEGIN without IMMEDIATE.
BeginDeferred(i, t) ==
    /\ phase[i] = "idle"
    /\ phase' = [phase EXCEPT ![i] = "begun"]
    /\ wanted' = [wanted EXCEPT ![i] = t]
    /\ UNCHANGED <<writer, rowVars>>

\* BEGIN IMMEDIATE waits for the write lock; after 5 s it throws and nothing has
\* happened.
BeginImmediate(i, t) ==
    /\ phase[i] = "idle" /\ writer = None
    /\ phase' = [phase EXCEPT ![i] = "begun"]
    /\ wanted' = [wanted EXCEPT ![i] = t]
    /\ writer' = i
    /\ UNCHANGED rowVars

\* COMMIT, and the transaction is over.
Committed(i) == /\ phase' = [phase EXCEPT ![i] = "idle"]
                /\ wanted' = [wanted EXCEPT ![i] = None]
                /\ writer' = None

ConflictFor(t) == \E k \in ListActive : Overlap(task[k], t)

\* Mutation: the conflict is answered and the transaction left open.
ConflictLeftOpen(i) ==
    /\ phase[i] = "begun"
    /\ ConflictFor(wanted[i])
    /\ phase' = [phase EXCEPT ![i] = "idle"]
    /\ wanted' = [wanted EXCEPT ![i] = None]
    /\ UNCHANGED <<writer, rowVars>>

AnswerConflict(i) ==
    /\ phase[i] = "begun"
    /\ ConflictFor(wanted[i])
    /\ Committed(i)
    /\ UNCHANGED rowVars

FindNoConflict(i) ==
    /\ phase[i] = "begun"
    /\ ~ConflictFor(wanted[i])
    /\ phase' = [phase EXCEPT ![i] = "clear"]
    /\ UNCHANGED <<wanted, writer, rowVars>>

\* A fresh id, and an active row that other connections see from now on.
InsertAndCommit(i) ==
    /\ phase[i] = "clear"
    /\ \E k \in LockIds :
          /\ task[k] = None
          /\ task' = [task EXCEPT ![k] = wanted[i]]
          /\ owner' = [owner EXCEPT ![k] = i]
          /\ UNCHANGED expired
    /\ Committed(i)

\* The callback throws: an unknown task, a constraint.
RollBack(i) == InTransaction(i) /\ Committed(i) /\ UNCHANGED rowVars

\* The rollback throws too: the connection is poisoned and closed, which may
\* fail as well and then leaves the write lock with it.
RollBackFails(i) ==
    /\ InTransaction(i)
    /\ phase' = [phase EXCEPT ![i] = "poisoned"]
    /\ wanted' = [wanted EXCEPT ![i] = None]
    /\ writer' \in {None, i}
    /\ UNCHANGED rowVars
-----------------------------------------------------------------------------
\* The other operations, each a transaction of one connection

Writable(i) == phase[i] = "idle" /\ writer = None

\* task_id and owner_instance_id are compared in the statement itself.
Holds(i, k) == k \in ListActive /\ owner[k] = i

Remove(k) == /\ task' = [task EXCEPT ![k] = None]
             /\ owner' = [owner EXCEPT ![k] = None]
             /\ expired' = [expired EXCEPT ![k] = FALSE]

LeaseExpires(k) ==
    /\ k \in ListActive /\ ~expired[k]
    /\ expired' = [expired EXCEPT ![k] = TRUE]
    /\ UNCHANGED <<task, owner, connectionVars>>

Heartbeat(i, k) ==
    /\ Writable(i) /\ Holds(i, k)
    /\ expired' = [expired EXCEPT ![k] = FALSE]
    /\ UNCHANGED <<task, owner, connectionVars>>

Release(i, k) ==
    Writable(i) /\ Holds(i, k) /\ Remove(k) /\ UNCHANGED connectionVars

\* On explicit evidence, whoever the owner is.
ReleaseAfterReconcile(i, k) ==
    Writable(i) /\ k \in ListActive /\ Remove(k) /\ UNCHANGED connectionVars

\* requireActiveLock: recovery wants exactly one active lock of its task.
OnlyLockOfItsTask(k) == /\ k \in ListActive
                        /\ \A j \in ListActive : task[j] = task[k] => j = k

\* Recovery's continue.
TakeOver(i, k) ==
    /\ Writable(i) /\ OnlyLockOfItsTask(k) /\ owner[k] # i
    /\ owner' = [owner EXCEPT ![k] = i]
    /\ expired' = [expired EXCEPT ![k] = FALSE]
    /\ UNCHANGED <<task, connectionVars>>

\* Recovery's cancel.
CancelAudited(i, k) ==
    Writable(i) /\ OnlyLockOfItsTask(k) /\ Remove(k) /\ UNCHANGED connectionVars

\* The process dies; SQLite rolls its transaction back.
Die(i) ==
    /\ phase[i] # "dead"
    /\ phase' = [phase EXCEPT ![i] = "dead"]
    /\ wanted' = [wanted EXCEPT ![i] = None]
    /\ writer' = IF writer = i THEN None ELSE writer
    /\ UNCHANGED rowVars
-----------------------------------------------------------------------------
LockInit ==
    /\ task = [k \in LockIds |-> None]
    /\ owner = [k \in LockIds |-> None]
    /\ expired = [k \in LockIds |-> FALSE]
    /\ phase = [i \in Instances |-> "idle"]
    /\ wanted = [i \in Instances |-> None]
    /\ writer = None

TransactionStep(i) == \/ AnswerConflict(i) \/ FindNoConflict(i) \/ InsertAndCommit(i)
                      \/ RollBack(i) \/ RollBackFails(i)

RowStep(i, k) == \/ Heartbeat(i, k) \/ Release(i, k) \/ ReleaseAfterReconcile(i, k)
                 \/ TakeOver(i, k) \/ CancelAudited(i, k)

LockNext == \/ \E i \in Instances, t \in Tasks : BeginImmediate(i, t)
            \/ \E i \in Instances : TransactionStep(i) \/ Die(i)
            \/ \E i \in Instances, k \in LockIds : RowStep(i, k)
            \/ \E k \in LockIds : LeaseExpires(k)

\* A transaction is synchronous code: it goes on without waiting for anything.
LockSpec == /\ LockInit /\ [][LockNext]_lockVars
            /\ \A i \in Instances : WF_lockVars(TransactionStep(i))
-----------------------------------------------------------------------------
\* Properties

\* withTransaction with BEGIN IMMEDIATE: whoever is in a transaction holds the write
\* lock, and what it has found about conflicts is still true when it inserts.
TransactionsAreSerial ==
    \A i \in Instances :
        /\ InTransaction(i) => writer = i /\ wanted[i] \in Tasks
        /\ phase[i] = "clear" => ~ConflictFor(wanted[i])

\* Every variable keeps its type, and transactions are serial: with this, exclusive
\* roots are inductive.
LockInv == LockTypeOK /\ TransactionsAreSerial

\* No two active locks are for overlapping roots, whatever leases have run out and
\* however the transactions of different instances interleave.
RootsAreExclusive ==
    \A j, k \in LockIds :
        j # k /\ task[j] # None /\ task[k] # None => ~Overlap(task[j], task[k])

Holders == {task[k] : k \in LockIds} \ {None}

Promise == INSTANCE ExclusiveRoots WITH holders <- Holders

\* Takeovers, renewals and audits aside, the rows grant and withdraw roots one at
\* a time, as the abstract lock does.
LockImplementsPromise == Promise!ExclusiveSpec

\* Every transaction gives the write lock back, conflict or not; only a connection
\* that could not even be closed keeps it.
WriteLockComesBack ==
    \A i \in Instances : writer = i ~> writer # i \/ phase[i] = "poisoned"
=============================================================================
