----------------------------- MODULE LockProofs -----------------------------
(* Exclusive project roots, for any tasks, roots, instances and bound.        *)
EXTENDS ProjectLock, TLAPS

\* The inductive invariant: a row is inserted on the strength of what the
\* transaction has read, so exclusion rests on the transactions being serial.
RootInv == LockInv /\ RootsAreExclusive

-----------------------------------------------------------------------------
\* Containing is tested in both directions.
LEMMA OverlapIsSymmetric == \A t, u : Overlap(t, u) <=> Overlap(u, t)
BY DEF Overlap

\* No lock, and no transaction.
LEMMA InitialRootInv == LockInit => RootInv
BY LockAssumption DEF LockInit, RootInv, LockInv, LockTypeOK, TransactionsAreSerial,
   RootsAreExclusive, InTransaction, Phases

\* A step that touches no row and lets one connection go on alone.
LEMMA ConnectionStep ==
    ASSUME RootInv, UNCHANGED rowVars,
           NEW i \in Instances,
           NEW p \in Phases, phase' = [phase EXCEPT ![i] = p],
           NEW t \in Tasks \cup {None}, wanted' = [wanted EXCEPT ![i] = t],
           writer' \in Instances \cup {None},
           writer' = writer \/ writer = i \/ writer = None,
           p \in {"begun", "clear"} => writer' = i /\ t \in Tasks,
           p = "clear" => ~ConflictFor(t)
    PROVE  RootInv'
<1>1. LockTypeOK'
  BY DEF RootInv, LockInv, LockTypeOK, rowVars
<1>2. ASSUME NEW j \in Instances, j # i, InTransaction(j)
      PROVE  writer = j /\ writer' = j
  BY <1>2, LockAssumption DEF RootInv, LockInv, TransactionsAreSerial
<1>3. phase' = [phase EXCEPT ![i] = p] /\ phase \in [Instances -> Phases]
      /\ wanted \in [Instances -> Tasks \cup {None}]
  BY DEF RootInv, LockInv, LockTypeOK
<1>4. TransactionsAreSerial'
  <2> SUFFICES ASSUME NEW j \in Instances
               PROVE  /\ InTransaction(j)' => writer' = j /\ wanted'[j] \in Tasks
                      /\ phase'[j] = "clear" => ~ConflictFor(wanted[j])'
    BY DEF TransactionsAreSerial
  <2>1. CASE j = i
    BY <2>1, <1>3 DEF InTransaction, ConflictFor, ListActive, rowVars, Overlap
  <2>2. CASE j # i
    <3>1. phase'[j] = phase[j] /\ wanted'[j] = wanted[j]
      BY <2>2, <1>3
    <3>2. ConflictFor(wanted[j])' <=> ConflictFor(wanted[j])
      BY <3>1 DEF ConflictFor, ListActive, rowVars, Overlap
    <3> QED BY <2>2, <1>2, <3>1, <3>2 DEF InTransaction, RootInv, LockInv, TransactionsAreSerial
  <2> QED BY <2>1, <2>2
<1>5. RootsAreExclusive'
  BY DEF RootInv, RootsAreExclusive, rowVars, Overlap
<1> QED BY <1>1, <1>4, <1>5 DEF RootInv, LockInv

\* A step of one statement: no connection moves, and no lock appears.
LEMMA StatementStep ==
    ASSUME RootInv, UNCHANGED connectionVars, LockTypeOK',
           \A k \in LockIds : task'[k] \in {task[k], None}
    PROVE  RootInv'
<1>1. TransactionsAreSerial'
  <2> SUFFICES ASSUME NEW j \in Instances
               PROVE  /\ InTransaction(j)' => writer' = j /\ wanted'[j] \in Tasks
                      /\ phase'[j] = "clear" => ~ConflictFor(wanted[j])'
    BY DEF TransactionsAreSerial
  <2>1. /\ InTransaction(j) => writer = j /\ wanted[j] \in Tasks
        /\ phase[j] = "clear" => ~ConflictFor(wanted[j])
    BY DEF RootInv, LockInv, TransactionsAreSerial
  <2>2. phase' = phase /\ wanted' = wanted /\ writer' = writer
    BY DEF connectionVars
  <2>3. ConflictFor(wanted[j])' => ConflictFor(wanted[j])
    <3>1. ASSUME ConflictFor(wanted[j])' PROVE ConflictFor(wanted[j])
      BY <3>1, <2>2 DEF ConflictFor, ListActive, Overlap
    <3> QED BY <3>1
  <2> QED BY <2>1, <2>2, <2>3 DEF InTransaction
<1>2. RootsAreExclusive'
  BY DEF RootInv, RootsAreExclusive, Overlap
<1> QED BY <1>1, <1>2 DEF RootInv, LockInv

\* The row inserted is for a root that no active lock overlaps, and nobody else is
\* in a transaction that relies on it.
LEMMA InsertStep ==
    ASSUME RootInv, NEW i \in Instances, InsertAndCommit(i)
    PROVE  RootInv'
<1> DEFINE t == wanted[i]
<1>1. /\ writer = i /\ t \in Tasks /\ ~ConflictFor(t)
      /\ \A j \in Instances : InTransaction(j) => j = i
  BY DEF RootInv, LockInv, TransactionsAreSerial, InsertAndCommit, InTransaction
<1>2. PICK k \in LockIds : /\ task[k] = None
                           /\ task' = [task EXCEPT ![k] = t]
                           /\ owner' = [owner EXCEPT ![k] = i]
                           /\ expired' = expired
  BY DEF InsertAndCommit
<1>3. LockTypeOK'
  BY <1>1, <1>2 DEF RootInv, LockInv, LockTypeOK, InsertAndCommit, Committed, Phases
<1>4. \A j \in Instances : ~InTransaction(j)'
  BY <1>1 DEF RootInv, LockInv, LockTypeOK, InsertAndCommit, Committed, InTransaction
<1>5. TransactionsAreSerial'
  BY <1>4 DEF TransactionsAreSerial, InTransaction
<1>6. \A j \in LockIds : task[j] # None => ~Overlap(task[j], t) /\ ~Overlap(t, task[j])
  BY <1>1, OverlapIsSymmetric DEF ConflictFor, ListActive
<1>7. RootsAreExclusive'
  <2> SUFFICES ASSUME NEW j \in LockIds, NEW m \in LockIds,
                      j # m, task'[j] # None, task'[m] # None
               PROVE  ~Overlap(task'[j], task'[m])
    BY DEF RootsAreExclusive, Overlap
  <2>1. \A n \in LockIds : task'[n] = IF n = k THEN t ELSE task[n]
    BY <1>2 DEF RootInv, LockInv, LockTypeOK
  <2>2. CASE j = k
    BY <2>1, <2>2, <1>6
  <2>3. CASE m = k
    BY <2>1, <2>3, <1>6
  <2>4. CASE j # k /\ m # k
    BY <2>1, <2>4 DEF RootInv, RootsAreExclusive
  <2> QED BY <2>2, <2>3, <2>4
<1> QED BY <1>3, <1>5, <1>7 DEF RootInv, LockInv

\* Deleting a lock of any kind.
LEMMA RemoveStep ==
    ASSUME RootInv, NEW k \in LockIds, Remove(k), UNCHANGED connectionVars
    PROVE  RootInv'
<1>1. LockTypeOK'
  BY DEF RootInv, LockInv, LockTypeOK, Remove, connectionVars
<1>2. \A j \in LockIds : task'[j] \in {task[j], None}
  BY DEF RootInv, LockInv, LockTypeOK, Remove
<1> QED BY <1>1, <1>2, StatementStep

\* Renewing, expiring or taking over a lock leaves its task alone.
LEMMA LeaseStep ==
    ASSUME RootInv, UNCHANGED <<task, connectionVars>>,
           owner' \in [LockIds -> Instances \cup {None}],
           expired' \in [LockIds -> BOOLEAN]
    PROVE  RootInv'
<1>1. LockTypeOK'
  BY DEF RootInv, LockInv, LockTypeOK, connectionVars
<1> QED BY <1>1, StatementStep

\* Ending a transaction without a row.
LEMMA CommitStep ==
    ASSUME RootInv, NEW i \in Instances, InTransaction(i), Committed(i), UNCHANGED rowVars
    PROVE  RootInv'
<1>1. "idle" \in Phases /\ None \in Tasks \cup {None}
  BY DEF Phases
<1>2. /\ phase' = [phase EXCEPT ![i] = "idle"]
      /\ wanted' = [wanted EXCEPT ![i] = None]
      /\ writer' = None
  BY DEF Committed
<1>3. writer = i
  BY DEF RootInv, LockInv, TransactionsAreSerial
<1> QED BY <1>1, <1>2, <1>3, ConnectionStep

\* One step for each action.
LEMMA RootInvStep == RootInv /\ LockNext => RootInv'
<1> SUFFICES ASSUME RootInv, LockNext PROVE RootInv'
  OBVIOUS
<1>0. LockTypeOK /\ TransactionsAreSerial
  BY DEF RootInv, LockInv
<1>1. ASSUME NEW i \in Instances, NEW t \in Tasks, BeginImmediate(i, t) PROVE RootInv'
  BY <1>1, ConnectionStep DEF BeginImmediate, Phases
<1>2. ASSUME NEW i \in Instances, AnswerConflict(i) PROVE RootInv'
  BY <1>2, CommitStep DEF AnswerConflict, InTransaction
<1>3. ASSUME NEW i \in Instances, FindNoConflict(i) PROVE RootInv'
  <2>1. writer = i /\ wanted[i] \in Tasks
    BY <1>3, <1>0 DEF FindNoConflict, TransactionsAreSerial, InTransaction
  <2>2. wanted' = [wanted EXCEPT ![i] = wanted[i]]
    BY <1>3, <1>0 DEF FindNoConflict, LockTypeOK
  <2> QED BY <1>3, <2>1, <2>2, ConnectionStep DEF FindNoConflict, Phases
<1>4. ASSUME NEW i \in Instances, InsertAndCommit(i) PROVE RootInv'
  BY <1>4, InsertStep
<1>5. ASSUME NEW i \in Instances, RollBack(i) PROVE RootInv'
  BY <1>5, CommitStep DEF RollBack
<1>6. ASSUME NEW i \in Instances, RollBackFails(i) PROVE RootInv'
  <2>1. writer = i
    BY <1>6, <1>0 DEF RollBackFails, TransactionsAreSerial
  <2> QED BY <1>6, <2>1, ConnectionStep DEF RollBackFails, Phases
<1>7. ASSUME NEW i \in Instances, Die(i) PROVE RootInv'
  <2>1. writer' \in Instances \cup {None} /\ (writer' = writer \/ writer = i)
    BY <1>7, <1>0 DEF Die, LockTypeOK
  <2> QED BY <1>7, <2>1, ConnectionStep DEF Die, Phases
<1>8. ASSUME NEW i \in Instances, NEW k \in LockIds, Heartbeat(i, k) PROVE RootInv'
  BY <1>8, <1>0, LeaseStep DEF Heartbeat, LockTypeOK
<1>9. ASSUME NEW i \in Instances, NEW k \in LockIds, Release(i, k) PROVE RootInv'
  BY <1>9, RemoveStep DEF Release
<1>10. ASSUME NEW i \in Instances, NEW k \in LockIds, ReleaseAfterReconcile(i, k)
       PROVE  RootInv'
  BY <1>10, RemoveStep DEF ReleaseAfterReconcile
<1>11. ASSUME NEW i \in Instances, NEW k \in LockIds, TakeOver(i, k) PROVE RootInv'
  BY <1>11, <1>0, LeaseStep DEF TakeOver, LockTypeOK
<1>12. ASSUME NEW i \in Instances, NEW k \in LockIds, CancelAudited(i, k) PROVE RootInv'
  BY <1>12, RemoveStep DEF CancelAudited
<1>13. ASSUME NEW k \in LockIds, LeaseExpires(k) PROVE RootInv'
  BY <1>13, <1>0, LeaseStep DEF LeaseExpires, LockTypeOK
<1> QED BY <1>1, <1>2, <1>3, <1>4, <1>5, <1>6, <1>7, <1>8, <1>9, <1>10, <1>11, <1>12, <1>13
        DEF LockNext, TransactionStep, RowStep

\* The invariant is a state predicate over lockVars.
LEMMA RootInvStutter == RootInv /\ UNCHANGED lockVars => RootInv'
BY DEF lockVars, rowVars, connectionVars, RootInv, LockInv, LockTypeOK, TransactionsAreSerial,
   RootsAreExclusive, InTransaction, ConflictFor, ListActive, Overlap

\* Acquiring is serial, and what is inserted conflicts with nothing: for any tasks,
\* roots, number of instances and bound.
THEOREM LockSafety == LockSpec => []RootInv
<1>1. RootInv /\ [LockNext]_lockVars => RootInv'
  BY RootInvStep, RootInvStutter
<1> QED BY InitialRootInv, <1>1, PTL DEF LockSpec

\* No two active locks are ever for overlapping roots.
THEOREM Exclusion == LockSpec => []RootsAreExclusive
<1>1. RootInv => RootsAreExclusive
  BY DEF RootInv
<1> QED BY LockSafety, <1>1, PTL

\* Transactions on project_locks are serial.
THEOREM Serial == LockSpec => []LockInv
<1>1. RootInv => LockInv
  BY DEF RootInv
<1> QED BY LockSafety, <1>1, PTL
-----------------------------------------------------------------------------
(* The rows implement the abstract lock. *)

\* The abstract specification has the same notion of overlap.
LEMMA SameOverlap == \A t, u : Promise!Overlap(t, u) <=> Overlap(t, u)
BY DEF Promise!Overlap, Promise!SameOrChild, Overlap, SameOrChild

\* A root overlaps itself, so a task has one active lock at most.
LEMMA OverlapIsReflexive == \A t \in Tasks : Overlap(t, t)
<1> TAKE t \in Tasks
<1> DEFINE s == Root[t]
<1>1. s \in Seq(STRING)
  BY LockAssumption
<1>2. Len(s) \in 0..Len(s) /\ SubSeq(s, 1, Len(s)) = s
  BY <1>1
<1> QED BY <1>2 DEF Overlap, SameOrChild

\* Inserting a row grants its root.
LEMMA InsertGrants ==
    ASSUME RootInv, NEW i \in Instances, InsertAndCommit(i)
    PROVE  Promise!Grant(wanted[i]) /\ wanted[i] \in Tasks
<1> DEFINE t == wanted[i]
<1>1. t \in Tasks /\ ~ConflictFor(t)
  BY DEF RootInv, LockInv, TransactionsAreSerial, InsertAndCommit, InTransaction
<1>2. PICK k \in LockIds : task[k] = None /\ task' = [task EXCEPT ![k] = t]
  BY DEF InsertAndCommit
<1>3. \A j \in LockIds : task'[j] = IF j = k THEN t ELSE task[j]
  BY <1>2 DEF RootInv, LockInv, LockTypeOK
<1>4. t # None
  BY <1>1, LockAssumption
<1>5. Holders' = Holders \cup {t}
  BY <1>2, <1>3, <1>4 DEF Holders
<1>6. \A u \in Holders : ~Promise!Overlap(t, u)
  BY <1>1, SameOverlap, OverlapIsSymmetric DEF Holders, ConflictFor, ListActive
<1> QED BY <1>1, <1>5, <1>6 DEF Promise!Grant

\* Deleting an active lock, the only one of its task, withdraws its root.
LEMMA RemoveWithdraws ==
    ASSUME RootInv, NEW k \in LockIds, task[k] # None, Remove(k)
    PROVE  Promise!Withdraw(task[k]) /\ task[k] \in Tasks
<1>1. task[k] \in Tasks
  BY DEF RootInv, LockInv, LockTypeOK
<1>2. \A j \in LockIds : j # k => task[j] # task[k]
  BY <1>1, OverlapIsReflexive DEF RootInv, RootsAreExclusive
<1>3. \A j \in LockIds : task'[j] = IF j = k THEN None ELSE task[j]
  BY DEF RootInv, LockInv, LockTypeOK, Remove
<1>4. Holders' = Holders \ {task[k]}
  BY <1>2, <1>3 DEF Holders
<1> QED BY <1>1, <1>4 DEF Promise!Withdraw

\* Whatever leaves the tasks of the rows alone is a stutter of the promise.
LEMMA SameTasksSameHolders == task' = task => UNCHANGED Holders
BY DEF Holders

\* One step of the promise, or none, for each step of the rows.
LEMMA StepKeepsPromise == RootInv /\ LockNext => [Promise!ExclusiveNext]_Holders
<1> SUFFICES ASSUME RootInv, LockNext PROVE [Promise!ExclusiveNext]_Holders
  OBVIOUS
<1>1. CASE task' = task
  BY <1>1, SameTasksSameHolders
<1>2. ASSUME NEW i \in Instances, InsertAndCommit(i) PROVE Promise!ExclusiveNext
  BY <1>2, InsertGrants DEF Promise!ExclusiveNext
<1>3. ASSUME NEW i \in Instances, NEW k \in LockIds,
             Release(i, k) \/ ReleaseAfterReconcile(i, k) \/ CancelAudited(i, k)
      PROVE  Promise!ExclusiveNext
  <2>1. task[k] # None /\ Remove(k)
    BY <1>3 DEF Release, ReleaseAfterReconcile, CancelAudited, Holds, OnlyLockOfItsTask, ListActive
  <2> QED BY <2>1, RemoveWithdraws DEF Promise!ExclusiveNext
<1>4. \/ task' = task
      \/ \E i \in Instances : InsertAndCommit(i)
      \/ \E i \in Instances, k \in LockIds :
            Release(i, k) \/ ReleaseAfterReconcile(i, k) \/ CancelAudited(i, k)
  BY DEF LockNext, TransactionStep, RowStep, BeginImmediate, AnswerConflict, FindNoConflict,
     RollBack, RollBackFails, Die, Heartbeat, TakeOver, LeaseExpires, rowVars
<1> QED BY <1>1, <1>2, <1>3, <1>4

\* The rows, transactions, leases and takeovers implement the abstract lock: tasks
\* are granted their roots one at a time and only when nothing overlaps.
THEOREM LockKeepsPromise == LockSpec => LockImplementsPromise
<1>1. LockInit => Promise!ExclusiveInit
  BY DEF LockInit, Holders, Promise!ExclusiveInit
<1>2. RootInv /\ [LockNext]_lockVars => [Promise!ExclusiveNext]_Holders
  <2>1. UNCHANGED lockVars => task' = task
    BY DEF lockVars, rowVars
  <2> QED BY <2>1, StepKeepsPromise, SameTasksSameHolders
<1> QED BY <1>1, <1>2, LockSafety, PTL
        DEF LockSpec, LockImplementsPromise, Promise!ExclusiveSpec
=============================================================================
