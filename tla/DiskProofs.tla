------------------------------ MODULE DiskProofs ------------------------------
(* Proofs about what stays on disk: the lock between the processes that build the *)
(* native helper (HelperBuild), the baselines of a task's files (BaselineCapture) *)
(* and the types of all the components on disk together.                         *)
EXTENDS MCDurableState, CandidateProofs, ControlProofs, FiniteSetTheorems, WellFoundedInduction,
        TLAPS
-----------------------------------------------------------------------------
(* The build lock (HelperBuild).  A claim is founded for good: its lock was       *)
(* without a readable owner, or its owner had ended, and neither is ever undone.  *)

BuilderAts == {"unborn", "waiting", "claiming", "renaming", "verifying", "holding",
               "releasing", "unlocking", "released", "ended"}
BuilderRows == [at : BuilderAts, lock : {0} \cup Builders, byDir : BOOLEAN,
                moved : {0} \cup Builders, nested : BOOLEAN, parent : {0} \cup Builders]
LockRows == [old : BOOLEAN, damaged : BOOLEAN, deleted : BOOLEAN]

Founded(row) ==
    /\ row.at \in {"claiming", "renaming", "verifying"} =>
           /\ row.lock \in Builders
           /\ row.byDir => Lock(row.lock).damaged
           /\ ~row.byDir => Dead(row.lock)
    /\ row.at \in {"verifying", "released"} => row.moved \in Builders

LocksTyped == hb_canon \in {0} \cup Builders /\ hb_lock \in [Builders -> LockRows]
ClaimsInv == hb_proc \in [Builders -> BuilderRows] /\ \A p \in Builders : Founded(hb_proc[p])
HelperInv == LocksTyped /\ ClaimsInv

\* A lock keeps its damage.
DamageStays == /\ hb_lock' \in [Builders -> LockRows]
               /\ \A q \in Builders : Lock(q).damaged => Lock(q)'.damaged

\* A process that has not ended takes a step, and its claim is founded.
Steps(p, row) == /\ row \in BuilderRows /\ ~Dead(p) /\ Founded(row)
                 /\ hb_proc' = [hb_proc EXCEPT ![p] = row]

LEMMA ClaimsKept ==
    ASSUME HelperInv, DamageStays,
           UNCHANGED hb_proc \/ \E p \in Builders, row \in BuilderRows : Steps(p, row)
    PROVE  ClaimsInv'
<1>0. hb_proc \in [Builders -> BuilderRows] /\ \A p \in Builders : Founded(hb_proc[p])
  BY DEF HelperInv, ClaimsInv
<1>1. CASE UNCHANGED hb_proc
  BY <1>0, <1>1 DEF ClaimsInv, Founded, DamageStays, Dead, IsAt, Lock
<1>2. ASSUME NEW p \in Builders, NEW row \in BuilderRows, Steps(p, row)
      PROVE  ClaimsInv'
  <2>1. /\ hb_proc' \in [Builders -> BuilderRows]
        /\ hb_proc'[p] = row /\ \A q \in Builders \ {p} : hb_proc'[q] = hb_proc[q]
    BY <1>0, <1>2 DEF Steps
  <2>2. \A q \in Builders : Dead(q) => Dead(q)'
    BY <1>2, <2>1 DEF Steps, Dead, IsAt
  <2>3. \A q \in Builders : Founded(hb_proc'[q])
    BY <1>0, <1>2, <2>1 DEF Steps
  <2>4. ASSUME NEW q \in Builders PROVE Founded(hb_proc[q])'
    BY <2>2, <2>3, <2>4 DEF Founded, DamageStays, Lock
  <2> QED BY <2>1, <2>4 DEF ClaimsInv
<1> QED BY <1>1, <1>2

\* Where a process goes next: it claims no more than it did.
LEMMA Going ==
    ASSUME HelperInv, NEW p \in Builders, NEW at \in BuilderAts, Goes(p, at), ~Dead(p),
           \/ at \notin {"claiming", "renaming", "verifying", "released"}
           \/ at \in {"claiming", "renaming"} /\ hb_proc[p].at \in {"claiming", "renaming"}
    PROVE  \E row \in BuilderRows : Steps(p, row)
<1>0. hb_proc[p] \in BuilderRows /\ Founded(hb_proc[p])
  BY DEF HelperInv, ClaimsInv
<1>1. CASE at \in {"waiting", "ended"}
  <2> DEFINE row == [hb_proc[p] EXCEPT !.at = at, !.lock = 0, !.byDir = FALSE, !.moved = 0]
  <2>1. hb_proc' = [hb_proc EXCEPT ![p] = row]
    BY <1>1 DEF Goes
  <2>2. row \in BuilderRows /\ row.at = at
    BY <1>0 DEF BuilderRows
  <2> HIDE DEF row
  <2> QED BY <1>1, <2>1, <2>2 DEF Steps, Founded
<1>2. CASE at \notin {"waiting", "ended"}
  <2> DEFINE row == [hb_proc[p] EXCEPT !.at = at]
  <2>1. hb_proc' = [hb_proc EXCEPT ![p] = row]
    BY <1>2 DEF Goes
  <2>2. row \in BuilderRows /\ row.at = at /\ row.lock = hb_proc[p].lock
        /\ row.byDir = hb_proc[p].byDir
    BY <1>0 DEF BuilderRows
  <2> HIDE DEF row
  <2> QED BY <1>0, <2>1, <2>2 DEF Steps, Founded
<1> QED BY <1>1, <1>2

\* A lock is deleted by its owner, or after its owner, or damaged.
Rightly(q) == Dead(q) \/ IsAt(q, "released") \/ Lock(q).damaged
DeletedRightly ==
    \A q \in Builders : hb_lock'[q].deleted /\ ~Lock(q).deleted => Rightly(q)

\* What a step leaves of the locks.
LocksKept == DeletedRightly /\ DamageStays /\ hb_canon' \in {0} \cup Builders

LEMMA LocksUnchanged ==
    ASSUME HelperInv, UNCHANGED hb_lock, hb_canon' \in {0} \cup Builders PROVE LocksKept
BY DEF HelperInv, LocksTyped, LocksKept, DeletedRightly, DamageStays, Lock

\* A row of the locks is edited: a deletion is rightful.
LEMMA LockEdited ==
    ASSUME HelperInv, NEW q \in Builders, NEW row \in LockRows,
           hb_lock' = [hb_lock EXCEPT ![q] = row], Lock(q).damaged => row.damaged,
           row.deleted => Lock(q).deleted \/ Rightly(q),
           hb_canon' \in {0} \cup Builders
    PROVE  LocksKept
<1>1. /\ hb_lock' \in [Builders -> LockRows] /\ hb_lock'[q] = row
      /\ \A r \in Builders \ {q} : hb_lock'[r] = hb_lock[r]
  BY DEF HelperInv, LocksTyped
<1>2. DeletedRightly
  BY <1>1 DEF DeletedRightly, Lock
<1> QED BY <1>1, <1>2 DEF LocksKept, DamageStays, Lock

\* Every step of a builder, by what it does to the processes.
LEMMA BuilderMoves ==
    ASSUME HelperInv, NEW p \in Builders,
           \/ Start(p) \/ Reenter(p) \/ Publish(p) \/ TimeOut(p) \/ Claim(p) \/ Recheck(p)
           \/ Quarantine(p) \/ DeleteQuarantined(p)
           \/ EndStep(p) \/ CheckOwn(p) \/ Unlock(p) \/ DeleteReleased(p) \/ Crash(p)
           \/ \E c \in Builders : StartChild(p, c)
    PROVE  \E q \in Builders, row \in BuilderRows : Steps(q, row)
<1>0. /\ hb_proc \in [Builders -> BuilderRows] /\ \A q \in Builders : Founded(hb_proc[q])
      /\ LocksTyped /\ hb_proc[p] \in BuilderRows
  BY DEF HelperInv, ClaimsInv
<1>1. CASE \/ Start(p) \/ Publish(p) \/ TimeOut(p) \/ DeleteQuarantined(p) \/ EndStep(p)
           \/ CheckOwn(p) \/ DeleteReleased(p) \/ Crash(p)
  <2>1. ~Dead(p) /\ \E at \in {"waiting", "holding", "ended", "unlocking", "releasing"} : Goes(p, at)
    BY <1>1 DEF Start, Publish, TimeOut, DeleteQuarantined, EndStep, CheckOwn, DeleteReleased,
                Crash, IsNext, IsAt, Dead
  <2> QED BY <2>1, Going DEF BuilderAts
<1>2. CASE Unlock(p)
  <2>0. ~Dead(p)
    BY <1>2 DEF Unlock, IsAt, Dead
  <2>1. CASE \E at \in {"releasing", "ended"} : Goes(p, at)
    BY <2>0, <2>1, Going DEF BuilderAts
  <2>2. CASE hb_canon # 0 /\ hb_proc' =
                 [hb_proc EXCEPT ![p] = [@ EXCEPT !.at = "released", !.moved = hb_canon]]
    <3> DEFINE row == [hb_proc[p] EXCEPT !.at = "released", !.moved = hb_canon]
    <3>1. hb_proc' = [hb_proc EXCEPT ![p] = row]
      BY <2>2
    <3>2. row \in BuilderRows /\ row.at = "released" /\ row.moved \in Builders
      <4>1. hb_canon \in Builders
        BY <1>0, <2>2 DEF LocksTyped
      <4> QED BY <1>0, <4>1 DEF BuilderRows, BuilderAts
    <3> HIDE DEF row
    <3>3. Steps(p, row)
      BY <2>0, <3>1, <3>2 DEF Steps, Founded
    <3> QED BY <3>2, <3>3
  <2> QED BY <1>2, <2>1, <2>2 DEF Unlock
<1>3. CASE Recheck(p)
  <2>1. /\ ~Dead(p) /\ hb_proc[p].at = "claiming"
        /\ \E at \in {"renaming", "waiting"} : Goes(p, at)
    BY <1>3 DEF Recheck, IsAt, Dead
  <2> QED BY <2>1, Going DEF BuilderAts
<1>4. CASE Quarantine(p)
  <2>0. ~Dead(p) /\ hb_proc[p].at = "renaming"
    BY <1>4 DEF Quarantine, IsAt, Dead
  <2>1. CASE \E at \in {"claiming", "waiting"} : Goes(p, at)
    BY <2>0, <2>1, Going DEF BuilderAts
  <2>2. CASE hb_canon # 0 /\ hb_proc' =
                 [hb_proc EXCEPT ![p] = [@ EXCEPT !.at = "verifying", !.moved = hb_canon]]
    <3> DEFINE row == [hb_proc[p] EXCEPT !.at = "verifying", !.moved = hb_canon]
    <3>1. hb_proc' = [hb_proc EXCEPT ![p] = row]
      BY <2>2
    <3>2. /\ row \in BuilderRows /\ row.at = "verifying" /\ row.lock = hb_proc[p].lock
          /\ row.byDir = hb_proc[p].byDir /\ row.moved \in Builders
      <4>1. hb_canon \in Builders
        BY <1>0, <2>2 DEF LocksTyped
      <4> QED BY <1>0, <4>1 DEF BuilderRows, BuilderAts
    <3> HIDE DEF row
    <3>3. Founded(hb_proc[p])
      BY <1>0
    <3>4. Steps(p, row)
      BY <2>0, <3>1, <3>2, <3>3 DEF Steps, Founded
    <3> QED BY <3>2, <3>4
  <2> QED BY <1>4, <2>1, <2>2 DEF Quarantine, FailsForNow
<1>5. CASE Claim(p)
  <2> DEFINE row == [hb_proc[p] EXCEPT !.at = "claiming", !.lock = hb_canon,
                                       !.byDir = Lock(hb_canon).damaged]
  <2>1. /\ hb_proc' = [hb_proc EXCEPT ![p] = row] /\ hb_canon # 0 /\ ~Dead(p)
        /\ Lock(hb_canon).damaged \/ Dead(hb_canon)
    BY <1>5 DEF Claim, Stale, IsAt, Dead
  <2>2. hb_canon \in Builders /\ Lock(hb_canon).damaged \in BOOLEAN
    BY <1>0, <2>1 DEF LocksTyped, LockRows, Lock
  <2>3. /\ row \in BuilderRows /\ row.at = "claiming" /\ row.lock = hb_canon
        /\ row.byDir <=> Lock(hb_canon).damaged
    BY <1>0, <2>2 DEF BuilderRows, BuilderAts
  <2> HIDE DEF row
  <2>4. Steps(p, row)
    BY <2>1, <2>2, <2>3 DEF Steps, Founded
  <2> QED BY <2>3, <2>4
<1>6. CASE Reenter(p)
  <2> DEFINE row == [hb_proc[p] EXCEPT !.at = "holding", !.nested = TRUE]
  <2>1. hb_proc' = [hb_proc EXCEPT ![p] = row] /\ ~Dead(p)
    BY <1>6 DEF Reenter, IsAt, Dead
  <2>2. row \in BuilderRows /\ row.at = "holding"
    BY <1>0 DEF BuilderRows, BuilderAts
  <2> HIDE DEF row
  <2> QED BY <2>1, <2>2 DEF Steps, Founded
<1>7. ASSUME NEW c \in Builders, StartChild(p, c)
      PROVE  \E row \in BuilderRows : Steps(c, row)
  <2> DEFINE row == [hb_proc[c] EXCEPT !.at = "waiting", !.parent = p]
  <2>1. hb_proc' = [hb_proc EXCEPT ![c] = row] /\ ~Dead(c)
    BY <1>7 DEF StartChild, IsNext, IsAt, Dead
  <2>2. row \in BuilderRows /\ row.at = "waiting"
    <3>1. hb_proc[c] \in BuilderRows
      BY <1>0
    <3> QED BY <3>1 DEF BuilderRows, BuilderAts
  <2> HIDE DEF row
  <2> QED BY <2>1, <2>2 DEF Steps, Founded
<1> QED BY <1>1, <1>2, <1>3, <1>4, <1>5, <1>6, <1>7

LEMMA BuildStep == HelperInv /\ [BuildNext]_hbVars => HelperInv' /\ DeletedRightly
<1> SUFFICES ASSUME HelperInv, [BuildNext]_hbVars PROVE HelperInv' /\ DeletedRightly
  OBVIOUS
<1>0. /\ hb_canon \in {0} \cup Builders /\ hb_lock \in [Builders -> LockRows]
      /\ \A q \in Builders : Founded(hb_proc[q])
  BY DEF HelperInv, LocksTyped, ClaimsInv
<1>1. ASSUME LocksKept,
             UNCHANGED hb_proc \/ \E q \in Builders, row \in BuilderRows : Steps(q, row)
      PROVE  HelperInv' /\ DeletedRightly
  BY <1>1, ClaimsKept DEF LocksKept, HelperInv, LocksTyped, DamageStays
<1>2. CASE UNCHANGED hbVars
  BY <1>0, <1>1, <1>2, LocksUnchanged DEF hbVars
<1>3. ASSUME NEW p \in Builders,
             \/ Start(p) \/ Reenter(p) \/ Publish(p) \/ TimeOut(p) \/ Claim(p) \/ Recheck(p)
             \/ Quarantine(p) \/ EndStep(p) \/ CheckOwn(p) \/ Unlock(p) \/ Crash(p)
             \/ \E c \in Builders : StartChild(p, c)
      PROVE  HelperInv' /\ DeletedRightly
  <2>1. UNCHANGED hb_lock /\ hb_canon' \in {0} \cup Builders
    BY <1>0, <1>3 DEF Start, Reenter, Publish, TimeOut, Claim, Recheck, Quarantine, FailsForNow,
           EndStep, CheckOwn, Unlock, Crash, StartChild, OnlyProc
  <2>2. LocksKept
    BY <2>1, LocksUnchanged
  <2>3. \E q \in Builders, row \in BuilderRows : Steps(q, row)
    BY <1>3, BuilderMoves
  <2> QED BY <1>1, <2>2, <2>3
<1>4. ASSUME NEW q \in Builders, Expire(q) \/ Damage(q)
      PROVE  HelperInv' /\ DeletedRightly
  <2>1. PICK row \in LockRows :
           /\ hb_lock' = [hb_lock EXCEPT ![q] = row]
           /\ Lock(q).damaged => row.damaged
           /\ row.deleted <=> Lock(q).deleted
    <3>1. CASE Expire(q)
      <4> DEFINE row == [hb_lock[q] EXCEPT !.old = TRUE]
      <4>1. hb_lock' = [hb_lock EXCEPT ![q] = row] /\ hb_lock[q] \in LockRows
        BY <1>0, <3>1 DEF Expire
      <4>2. /\ row \in LockRows
            /\ Lock(q).damaged => row.damaged
            /\ row.deleted <=> Lock(q).deleted
        BY <4>1 DEF LockRows, Lock
      <4> HIDE DEF row
      <4> QED BY <4>1, <4>2
    <3>2. CASE Damage(q)
      <4> DEFINE row == [hb_lock[q] EXCEPT !.damaged = TRUE]
      <4>1. hb_lock' = [hb_lock EXCEPT ![q] = row] /\ hb_lock[q] \in LockRows
        BY <1>0, <3>2 DEF Damage
      <4>2. /\ row \in LockRows
            /\ Lock(q).damaged => row.damaged
            /\ row.deleted <=> Lock(q).deleted
        BY <4>1 DEF LockRows, Lock
      <4> HIDE DEF row
      <4> QED BY <4>1, <4>2
    <3> QED BY <1>4, <3>1, <3>2
  <2>2. UNCHANGED <<hb_canon, hb_proc>>
    BY <1>4 DEF Expire, Damage
  <2>3. LocksKept
    BY <1>0, <2>1, <2>2, LockEdited
  <2> QED BY <1>1, <2>2, <2>3
<1>5. ASSUME NEW p \in Builders, DeleteQuarantined(p)
      PROVE  HelperInv' /\ DeletedRightly
  <2>0. hb_proc[p].at = "verifying" /\ Founded(hb_proc[p]) /\ UNCHANGED hb_canon
    BY <1>0, <1>5 DEF DeleteQuarantined, IsAt
  <2>1. LocksKept
    <3>1. CASE IsWhatItClaimed(p)
      <4> DEFINE q == hb_proc[p].moved
                 row == [hb_lock[q] EXCEPT !.deleted = TRUE]
      <4>1. q \in Builders
        BY <2>0 DEF Founded
      <4>2. hb_lock' = [hb_lock EXCEPT ![q] = row]
        BY <1>5, <3>1 DEF DeleteQuarantined
      <4>3. row \in LockRows /\ row.damaged = Lock(q).damaged
        BY <1>0, <4>1 DEF LockRows, Lock
      <4>4. Rightly(q)
        BY <2>0, <3>1 DEF Founded, IsWhatItClaimed, Rightly
      <4> HIDE DEF q, row
      <4> QED BY <1>0, <2>0, <4>1, <4>2, <4>3, <4>4, LockEdited
    <3>2. CASE ~IsWhatItClaimed(p)
      BY <1>0, <1>5, <2>0, <3>2, LocksUnchanged DEF DeleteQuarantined
    <3> QED BY <3>1, <3>2
  <2>2. \E q \in Builders, row \in BuilderRows : Steps(q, row)
    BY <1>5, BuilderMoves
  <2> QED BY <1>1, <2>1, <2>2
<1>6. ASSUME NEW p \in Builders, DeleteReleased(p)
      PROVE  HelperInv' /\ DeletedRightly
  <2>1. LocksKept
    <3>0. UNCHANGED hb_canon /\ Rightly(p)
      BY <1>6 DEF DeleteReleased, Rightly
    <3>1. CASE hb_proc[p].moved = p /\ ~Lock(p).damaged
      <4> DEFINE row == [hb_lock[p] EXCEPT !.deleted = TRUE]
      <4>1. hb_lock' = [hb_lock EXCEPT ![p] = row]
        BY <1>6, <3>1 DEF DeleteReleased
      <4>2. row \in LockRows /\ row.damaged = Lock(p).damaged
        BY <1>0 DEF LockRows, Lock
      <4> HIDE DEF row
      <4> QED BY <1>0, <3>0, <4>1, <4>2, LockEdited
    <3>2. CASE ~(hb_proc[p].moved = p /\ ~Lock(p).damaged)
      BY <1>0, <1>6, <3>0, <3>2, LocksUnchanged DEF DeleteReleased
    <3> QED BY <3>1, <3>2
  <2>2. \E q \in Builders, row \in BuilderRows : Steps(q, row)
    BY <1>6, BuilderMoves
  <2> QED BY <1>1, <2>1, <2>2
<1> QED BY <1>2, <1>3, <1>4, <1>5, <1>6 DEF BuildNext

LEMMA BuildInitially == BuildInit => HelperInv
<1> SUFFICES ASSUME BuildInit PROVE HelperInv
  OBVIOUS
<1>1. LocksTyped
  BY DEF BuildInit, LocksTyped, LockRows
<1>2. hb_proc \in [Builders -> BuilderRows]
  BY DEF BuildInit, BuilderRows, BuilderAts
<1>3. \A p \in Builders : hb_proc[p].at = "unborn"
  BY DEF BuildInit
<1> QED BY <1>1, <1>2, <1>3 DEF HelperInv, ClaimsInv, Founded

\* quarantineAndRemoveLockIdentityBound: for any number of processes, however long one
\* hesitates between its claim, the rename and the deletion.
THEOREM SuccessorsAreSafe == BuildSpec => SuccessorIsNeverDeleted
<1>1. HelperInv /\ [BuildNext]_hbVars
         => [\A q \in Builders : hb_lock'[q].deleted /\ ~Lock(q).deleted
                => Dead(q) \/ IsAt(q, "released") \/ Lock(q).damaged]_hbVars
  BY BuildStep DEF DeletedRightly, Rightly
<1> QED BY <1>1, BuildInitially, BuildStep, PTL DEF BuildSpec, SuccessorIsNeverDeleted
-----------------------------------------------------------------------------
(* The baselines of a task (BaselineCapture).  What the first pass has read of a  *)
(* path is either still there or superseded for good, since no two writes leave   *)
(* one stat: a second pass that reads the same has seen what was there between.   *)

ReadLoops == {"none", "file", "link", "large"}
PathStates == {Gone} \cup [kind : {"file", "link", "large"}, content : Contents, stat : Nat]
ReadKeys == [entry : FileEntries, stat : Nat]
Listings == {"absent", "there", "deleted", "committed", "changed"}
ScanAts == {"discover", "first", "second", "rediscover", "scanned"}
Purposes == {"task", "attempt", "task-window", "attempt-window"}
PathSets == SUBSET FilePaths
PathListings == [FilePaths -> Listings]
PathKeys == [FilePaths -> ReadKeys]
Projects == [FilePaths -> PathStates]
Scans == [at : ScanAts, purpose : Purposes, scans : Nat, todo : PathSets, reads : Nat,
          loop : ReadLoops, before : PathStates, listing : PathListings, keys : PathKeys,
          instant : Projects]

ProjectInv == /\ bc_git \in BOOLEAN /\ bc_clock \in Nat
              /\ bc_project \in Projects
              /\ \A p \in FilePaths : Project(p).stat <= bc_clock

\* What was read is gone, or written over.
Superseded(p, stat) == Project(p) = Gone \/ stat < Project(p).stat

\* What was read is still there.
Held(p, key) == /\ Project(p) # Gone /\ Project(p).stat = key.stat
                /\ \E loop \in ReadLoops : key.entry = EntryAs(loop, Project(p))

\* A pass has been made between the instant and now.
AfterInstant(scan) == scan.at \in {"second", "rediscover", "scanned"}

Confirmed(entry, object) == object # Gone /\ entry = EntryOf(object)

PathOK(scan, p) ==
    LET key == scan.keys[p] IN Present(key.entry) =>
    /\ scan.at # "discover" /\ scan.listing[p] # "absent"
    /\ key.stat <= bc_clock
    /\ Held(p, key) \/ Superseded(p, key.stat)
    /\ AfterInstant(scan) =>
          /\ scan.instant[p] = Project(p) \/ Superseded(p, key.stat)
          /\ \/ scan.at = "second" /\ p \in scan.todo
             \/ Confirmed(key.entry, scan.instant[p])
    /\ scan.at = "second" /\ scan.loop # "none" /\ p \in scan.todo /\ p = Min(scan.todo) =>
          scan.loop = LoopFor(Project(p)) \/ Superseded(p, key.stat)

\* A scan that may have seen every path of its phase.
ScanSound(scan) ==
    /\ scan \in Scans
    /\ scan.at = "first" => \A p \in scan.todo : scan.listing[p] # "absent"
    /\ scan.before # Gone \/ scan.reads > 1 => scan.loop # "none"
    /\ \A p \in FilePaths : PathOK(scan, p)

Scanning(scan) == ScanSound(scan) /\ (scan.at # "scanned" => scan.todo # {})
ScanInv == bc_scan # NoScan => Scanning(bc_scan)

Manifests == [files : [FilePaths -> FileEntries], truth : Projects]

\* The manifests are built on one another, and a scan is for what it was asked for.
BaselinesInv ==
    /\ bc_baselines \in [BaselineKinds -> {NoManifest} \cup Manifests]
    /\ \A kind \in BaselineKinds : bc_baselines[kind] # NoManifest =>
           /\ Intact(kind) /\ bc_baselines["task"] # NoManifest
           /\ Faithful(bc_baselines[kind].files, bc_baselines[kind].truth)
    /\ bc_scan # NoScan =>
           /\ bc_scan.purpose = "attempt" => bc_baselines["task"] # NoManifest
           /\ \A kind \in BaselineKinds :
                  /\ bc_scan.purpose = kind => bc_baselines[kind] = NoManifest
                  /\ bc_scan.purpose = Window(kind) => bc_baselines[kind] # NoManifest

ReportInv == bc_report # NoReport =>
    /\ bc_report.of \in BaselineKinds /\ bc_baselines[bc_report.of] # NoManifest
    /\ Faithful(Applied(bc_baselines[bc_report.of].files, bc_report.changes), bc_report.truth)

CaptureInv == ProjectInv /\ ScanInv /\ BaselinesInv /\ ReportInv

\* A set of numbers has a least one: by their initial segments, ordered by inclusion.
LEMMA LeastOne ==
    ASSUME NEW S \in SUBSET Nat, S # {}
    PROVE  Min(S) \in S /\ \A n \in S : Min(S) <= n
<1> DEFINE T == {0 .. n : n \in S}
<1>1. T \subseteq FiniteSubsetsOf(Nat) /\ T # {}
  <2>1. \A n \in S : 0 .. n \in SUBSET Nat /\ IsFiniteSet(0 .. n)
    BY FS_Interval
  <2> QED BY <2>1 DEF FiniteSubsetsOf
<1>2. PICK x \in T : \A y \in T : <<y, x>> \notin StrictSubsetOrdering(Nat)
  <2>1. IsWellFoundedOn(StrictSubsetOrdering(Nat), FiniteSubsetsOf(Nat))
    BY FS_StrictSubsetOrderingWellFounded
  <2> HIDE DEF T
  <2> QED BY <1>1, <2>1, WFMin
<1>3. PICK m \in S : x = 0 .. m
  OBVIOUS
<1>4. ASSUME NEW n \in S, n < m PROVE FALSE
  <2>1. 0 .. n \in T /\ 0 .. n \subseteq 0 .. m /\ 0 .. n # 0 .. m
    BY <1>4
  <2>2. <<0 .. n, 0 .. m>> \in StrictSubsetOrdering(Nat)
    BY <2>1 DEF StrictSubsetOrdering
  <2> QED BY <1>2, <1>3, <2>1, <2>2
<1>5. \A n \in S : m <= n
  BY <1>4
<1> QED BY <1>5 DEF Min

\* What is read of an object is an entry that is there; as lstat has it, the object's own.
LEMMA EntryFacts ==
    ASSUME NEW object \in PathStates
    PROVE  /\ object.stat \in Nat
           /\ \A loop \in ReadLoops : EntryAs(loop, object) \in FileEntries
                                      /\ Present(EntryAs(loop, object))
           /\ object # Gone => EntryAs(LoopFor(object), object) = EntryOf(object)
                               /\ LoopFor(object) \in ReadLoops /\ LoopFor(object) # "none"
<1>1. object.content \in Contents /\ object.stat \in Nat
  BY DEF PathStates, Gone, Contents
<1>2. object # Gone => object.kind \in {"file", "link", "large"}
  BY DEF PathStates, Gone
<1> QED BY <1>1, <1>2 DEF EntryAs, EntryOf, LoopFor, Present, FileEntries, Hashes, Contents, NoHash,
                          ReadLoops

LEMMA NothingThere ==
    /\ Missing \in FileEntries /\ ~Present(Missing)
    /\ Unlisted \in FileEntries /\ ~Present(Unlisted)
    /\ Gone \in PathStates
BY DEF Missing, Unlisted, Gone, FileEntries, Present, Hashes, Contents, NoHash, PathStates

\* A step that only scans.
LEMMA ScanKept ==
    ASSUME OnlyScan, bc_scan' = NoScan \/ Scanning(bc_scan') PROVE ScanInv'
BY DEF OnlyScan, ScanInv, Scanning, ScanSound, PathOK, AfterInstant, Held, Superseded, Confirmed,
       Project, EntryOf, EntryAs, LoopFor

LEMMA RestartSound ==
    ASSUME NEW purpose \in Purposes, NEW scans \in Nat
    PROVE  Scanning(ScanFrom(purpose, scans)) /\ ScanFrom(purpose, scans).purpose = purpose
<1> DEFINE scan == ScanFrom(purpose, scans)
<1>1. FilePaths \in PathSets /\ FilePaths # {}
  BY CaptureAssumption DEF PathSets
<1>2. /\ [p \in FilePaths |-> "absent"] \in PathListings
      /\ [p \in FilePaths |-> [entry |-> Unlisted, stat |-> 0]] \in PathKeys
      /\ [p \in FilePaths |-> Gone] \in Projects
  BY NothingThere DEF PathListings, Listings, PathKeys, ReadKeys, Projects
<1>3. /\ scan \in Scans /\ scan.at = "discover" /\ scan.todo = FilePaths /\ scan.before = Gone
      /\ scan.reads = 1 /\ scan.purpose = purpose
      /\ \A p \in FilePaths : scan.keys[p].entry = Unlisted
  BY <1>1, <1>2, NothingThere DEF ScanFrom, Scans, ScanAts, ReadLoops
<1> HIDE DEF scan
<1>4. Scanning(scan)
  BY <1>1, <1>3, NothingThere DEF Scanning, ScanSound, PathOK
<1> QED BY <1>3, <1>4 DEF scan

\* A phase that has seen every path is followed by the next one.
LEMMA AdvancedSound ==
    ASSUME ProjectInv, NEW scan, ScanSound(scan), scan.listing = bc_scan.listing,
           scan.at \in {"first", "second", "rediscover"}, scan.loop = "none", scan.before = Gone,
           scan.at = "first" => Looked # {}
    PROVE  Scanning(Advanced(scan)) /\ Advanced(scan).purpose = scan.purpose
<1>0. /\ scan \in Scans /\ \A p \in FilePaths : PathOK(scan, p)
      /\ scan.reads > 1 => FALSE
  BY DEF ScanSound
<1>1. CASE scan.todo # {}
  BY <1>1 DEF Advanced, Scanning
<1>2. CASE scan.todo = {} /\ scan.at = "first"
  <2> DEFINE row == [scan EXCEPT !.at = "second", !.todo = Looked, !.instant = bc_project]
  <2>1. Advanced(scan) = row
    BY <1>2 DEF Advanced, PhaseAfter
  <2>2. /\ row \in Scans /\ row.at = "second" /\ row.todo = Looked /\ row.instant = bc_project
        /\ row.keys = scan.keys /\ row.listing = scan.listing /\ row.loop = "none"
        /\ row.before = Gone /\ row.reads = scan.reads /\ row.purpose = scan.purpose
    <3>1. Looked \in PathSets /\ bc_project \in Projects
      BY DEF Looked, PathSets, ProjectInv
    <3> QED BY <1>0, <3>1 DEF Scans, ScanAts
  <2> HIDE DEF row
  <2>3. ASSUME NEW p \in FilePaths PROVE PathOK(row, p)
    BY <1>0, <1>2, <2>2 DEF PathOK, AfterInstant, Looked, Project
  <2>4. Scanning(row)
    BY <1>0, <1>2, <2>2, <2>3 DEF Scanning, ScanSound
  <2> QED BY <2>1, <2>2, <2>4
<1>3. CASE scan.todo = {} /\ scan.at \in {"second", "rediscover"}
  <2> DEFINE todo == IF scan.at = "second" THEN FilePaths ELSE Looked
             at == PhaseAfter(scan.at)
             row == [scan EXCEPT !.at = at, !.todo = todo]
  <2>1. Advanced(scan) = row
    <3>1. Advanced(scan) = [scan EXCEPT !.at = at, !.todo = todo, !.instant = scan.instant]
      BY <1>3 DEF Advanced
    <3> HIDE DEF at, todo
    <3> QED BY <1>0, <3>1 DEF Scans
  <2>2. /\ todo \in PathSets /\ at \in {"rediscover", "scanned"}
        /\ at = "rediscover" => todo # {}
    BY <1>3, CaptureAssumption DEF Looked, PathSets, PhaseAfter
  <2> HIDE DEF at, todo
  <2>3. /\ row \in Scans /\ row.at = at /\ row.todo = todo /\ row.instant = scan.instant
        /\ row.keys = scan.keys /\ row.listing = scan.listing /\ row.loop = "none"
        /\ row.before = Gone /\ row.reads = scan.reads /\ row.purpose = scan.purpose
    BY <1>0, <2>2 DEF Scans, ScanAts
  <2> HIDE DEF row
  <2>4. ASSUME NEW p \in FilePaths PROVE PathOK(row, p)
    BY <1>0, <1>3, <2>2, <2>3 DEF PathOK, AfterInstant
  <2>5. Scanning(row)
    BY <1>0, <2>2, <2>3, <2>4 DEF Scanning, ScanSound
  <2> QED BY <2>1, <2>3, <2>5
<1> QED BY <1>1, <1>2, <1>3

\* A path is done with in this phase: in the second, what was read is confirmed.
LEMMA SeenSound ==
    ASSUME ProjectInv, NEW scan, ScanSound(scan), scan.listing = bc_scan.listing,
           scan.at \in {"first", "second", "rediscover"}, NEW p \in scan.todo,
           scan.at = "second" /\ Present(scan.keys[p].entry) =>
               Confirmed(scan.keys[p].entry, scan.instant[p])
    PROVE  Scanning(Seen(scan, p)) /\ Seen(scan, p).purpose = scan.purpose
<1>0. scan \in Scans /\ \A q \in FilePaths : PathOK(scan, q)
  BY DEF ScanSound
<1> DEFINE todo == scan.todo \ {p}
           row == [scan EXCEPT !.todo = todo, !.reads = 1, !.loop = "none", !.before = Gone]
<1>1. Seen(scan, p) = Advanced(row)
  BY DEF Seen
<1>2. todo \in PathSets /\ p \in FilePaths
  BY <1>0 DEF Scans, PathSets
<1>3. \A q \in todo : q \in scan.todo /\ q # p
  OBVIOUS
<1>4. \A q \in scan.todo : q # p => q \in todo
  OBVIOUS
<1> HIDE DEF todo
<1>5. /\ row \in Scans /\ row.at = scan.at /\ row.todo = todo /\ row.instant = scan.instant
      /\ row.keys = scan.keys /\ row.listing = scan.listing /\ row.loop = "none"
      /\ row.before = Gone /\ row.reads = 1 /\ row.purpose = scan.purpose
  BY <1>0, <1>2, NothingThere DEF Scans, ReadLoops
<1> HIDE DEF row
<1>6. ASSUME NEW q \in FilePaths PROVE PathOK(row, q)
  BY <1>0, <1>4, <1>5 DEF PathOK, AfterInstant
<1>7. ScanSound(row)
  BY <1>3, <1>5, <1>6 DEF ScanSound
<1>8. scan.at = "first" => Looked # {}
  BY <1>2 DEF ScanSound, Looked
<1> QED BY <1>1, <1>5, <1>7, <1>8, AdvancedSound

\* A scan goes on, from the beginning or from where it is; or it is given up.
GoesOn == bc_scan' = NoScan \/ (Scanning(bc_scan') /\ bc_scan'.purpose = bc_scan.purpose)

LEMMA UnstableGoesOn == ASSUME Scanning(bc_scan), Unstable(bc_scan) PROVE GoesOn
<1>1. bc_scan.purpose \in Purposes /\ bc_scan.scans + 1 \in Nat
  BY DEF Scanning, ScanSound, Scans
<1> QED BY <1>1, RestartSound DEF Unstable, GoesOn

LEMMA RetryGoesOn ==
    ASSUME Scanning(bc_scan), bc_scan.at \in {"first", "second"}, bc_scan.loop # "none",
           Retry(bc_scan)
    PROVE  GoesOn
<1>1. CASE Unstable(bc_scan)
  BY <1>1, UnstableGoesOn
<1>2. CASE bc_scan' = [bc_scan EXCEPT !.reads = @ + 1, !.before = Gone]
  <2> DEFINE scan == [bc_scan EXCEPT !.reads = bc_scan.reads + 1, !.before = Gone]
  <2>0. bc_scan' = scan /\ bc_scan \in Scans
    BY <1>2 DEF Scanning, ScanSound
  <2>1. /\ scan \in Scans /\ scan.at = bc_scan.at /\ scan.todo = bc_scan.todo
        /\ scan.instant = bc_scan.instant /\ scan.keys = bc_scan.keys
        /\ scan.listing = bc_scan.listing /\ scan.loop = bc_scan.loop
        /\ scan.purpose = bc_scan.purpose
    <3>1. bc_scan.reads + 1 \in Nat
      BY <2>0 DEF Scans
    <3> QED BY <2>0, <3>1, NothingThere DEF Scans
  <2> HIDE DEF scan
  <2>2. ASSUME NEW p \in FilePaths PROVE PathOK(scan, p)
    BY <2>1 DEF PathOK, AfterInstant, Scanning, ScanSound
  <2>3. Scanning(scan)
    BY <2>1, <2>2 DEF Scanning, ScanSound
  <2> QED BY <2>0, <2>1, <2>3 DEF GoesOn
<1> QED BY <1>1, <1>2 DEF Retry

\* The path a scan is at.
LEMMA NextPath ==
    ASSUME Scanning(bc_scan), bc_scan.at # "scanned"
    PROVE  Next1 \in bc_scan.todo /\ Next1 \in FilePaths
<1>1. bc_scan.todo \in SUBSET Nat /\ bc_scan.todo # {} /\ bc_scan.todo \in SUBSET FilePaths
  BY CaptureAssumption DEF Scanning, ScanSound, Scans, PathSets
<1> QED BY <1>1, LeastOne DEF Next1

LEMMA DiscoverSound ==
    ASSUME ProjectInv, Scanning(bc_scan), Discover PROVE GoesOn
<1> DEFINE p == Next1
           todo == bc_scan.todo \ {p}
           listing == [bc_scan.listing EXCEPT ![p] = Listed(p)]
           scan == [bc_scan EXCEPT !.listing = listing, !.todo = todo]
           looked == {q \in FilePaths : scan.listing[q] # "absent"}
<1>0. bc_scan \in Scans /\ bc_scan.at = "discover" /\ \A q \in FilePaths : PathOK(bc_scan, q)
  BY DEF Scanning, ScanSound, Discover
<1>1. todo \in PathSets /\ looked \in PathSets /\ listing \in PathListings
  <2>1. Listed(p) \in Listings
    BY DEF Listed, Listings
  <2> QED BY <1>0, <2>1 DEF Scans, PathSets, PathListings
<1>2. bc_scan' = IF todo # {} THEN scan
                 ELSE [scan EXCEPT !.at = IF looked = {} THEN "rediscover" ELSE "first",
                                   !.todo = IF looked = {} THEN FilePaths ELSE looked]
  <2>1. [bc_scan EXCEPT !.listing[p] = Listed(p), !.todo = @ \ {p}] = scan /\ scan.todo = todo
    BY <1>0, ZenonT(30) DEF Scans
  <2> QED BY <2>1 DEF Discover
<1>3. \A q \in looked : scan.listing[q] # "absent"
  OBVIOUS
<1> HIDE DEF p, todo, listing
<1>4. /\ scan \in Scans /\ scan.at = "discover" /\ scan.todo = todo /\ scan.keys = bc_scan.keys
      /\ scan.reads = bc_scan.reads /\ scan.before = bc_scan.before /\ scan.loop = bc_scan.loop
      /\ scan.purpose = bc_scan.purpose
  BY <1>0, <1>1 DEF Scans
<1>5. \A q \in FilePaths : ~Present(bc_scan.keys[q].entry)
  BY <1>0 DEF PathOK
<1>6. bc_scan.before # Gone \/ bc_scan.reads > 1 => bc_scan.loop # "none"
  BY DEF Scanning, ScanSound
<1> HIDE DEF scan, looked
<1>7. CASE todo # {}
  <2>1. ASSUME NEW q \in FilePaths PROVE PathOK(scan, q)
    BY <1>4, <1>5 DEF PathOK
  <2>2. Scanning(scan)
    BY <1>4, <1>6, <1>7, <2>1 DEF Scanning, ScanSound
  <2> QED BY <1>2, <1>4, <1>7, <2>2 DEF GoesOn
<1>8. CASE todo = {}
  <2> DEFINE at == IF looked = {} THEN "rediscover" ELSE "first"
             then == IF looked = {} THEN FilePaths ELSE looked
             row == [scan EXCEPT !.at = at, !.todo = then]
  <2>1. bc_scan' = row
    BY <1>2, <1>8
  <2>2. /\ at \in {"rediscover", "first"} /\ then \in PathSets /\ then # {}
        /\ at = "first" => then = looked
    BY <1>1, CaptureAssumption DEF PathSets
  <2> HIDE DEF at, then
  <2>3. /\ row \in Scans /\ row.at = at /\ row.todo = then /\ row.keys = bc_scan.keys
        /\ row.reads = bc_scan.reads /\ row.before = bc_scan.before /\ row.loop = bc_scan.loop
        /\ row.purpose = bc_scan.purpose /\ row.listing = scan.listing
    BY <1>4, <2>2 DEF Scans, ScanAts
  <2> HIDE DEF row
  <2>4. ASSUME NEW q \in FilePaths PROVE PathOK(row, q)
    BY <1>5, <2>3 DEF PathOK
  <2>5. Scanning(row)
    BY <1>3, <1>6, <2>2, <2>3, <2>4 DEF Scanning, ScanSound
  <2> QED BY <2>1, <2>3, <2>5 DEF GoesOn
<1> QED BY <1>7, <1>8

LEMMA RediscoverSound ==
    ASSUME ProjectInv, Scanning(bc_scan), Rediscover PROVE GoesOn
<1>1. CASE Unstable(bc_scan)
  BY <1>1, UnstableGoesOn
<1>2. CASE bc_scan' = Seen(bc_scan, Next1)
  <2>1. bc_scan.at = "rediscover" /\ Next1 \in bc_scan.todo /\ ScanSound(bc_scan)
    BY NextPath DEF Rediscover, Scanning
  <2> QED BY <1>2, <2>1, SeenSound DEF GoesOn
<1> QED BY <1>1, <1>2 DEF Rediscover

\* A path has been read, as what is there or as missing.
LEMMA ReadSound ==
    ASSUME ProjectInv, Scanning(bc_scan), bc_scan.at \in {"first", "second"},
           NEW entry \in FileEntries, NEW stat \in Nat, Reads(Next1, entry, stat),
           Present(entry) => /\ bc_scan.loop \in ReadLoops \ {"none"}
                             /\ Project(Next1) # Gone /\ stat = Project(Next1).stat
                             /\ entry = EntryAs(bc_scan.loop, Project(Next1))
    PROVE  GoesOn
<1> DEFINE p == Next1
           key == [entry |-> entry, stat |-> stat]
<1>0. /\ bc_scan \in Scans /\ ScanSound(bc_scan) /\ \A q \in FilePaths : PathOK(bc_scan, q)
      /\ p \in bc_scan.todo /\ p \in FilePaths /\ p = Min(bc_scan.todo)
  BY NextPath DEF Scanning, ScanSound, Next1
<1>1. key \in ReadKeys /\ key.entry = entry /\ key.stat = stat
  BY DEF ReadKeys
<1>2. CASE bc_scan.at = "first"
  <2> DEFINE keys == [bc_scan.keys EXCEPT ![p] = key]
             scan == [bc_scan EXCEPT !.keys = keys]
  <2>1. bc_scan' = Seen(scan, p)
    <3>1. [bc_scan EXCEPT !.keys[p] = key] = scan
      OBVIOUS
    <3> QED BY <1>2, <3>1 DEF Reads
  <2>2. keys \in PathKeys /\ keys[p] = key /\ \A q \in FilePaths \ {p} : keys[q] = bc_scan.keys[q]
    BY <1>0, <1>1 DEF Scans, PathKeys
  <2> HIDE DEF keys
  <2>3. /\ scan \in Scans /\ scan.at = "first" /\ scan.todo = bc_scan.todo /\ scan.keys = keys
        /\ scan.reads = bc_scan.reads /\ scan.before = bc_scan.before /\ scan.loop = bc_scan.loop
        /\ scan.purpose = bc_scan.purpose /\ scan.listing = bc_scan.listing
    BY <1>0, <1>2, <2>2 DEF Scans
  <2> HIDE DEF scan, key
  <2>4. PathOK(scan, p)
    <3>1. Present(entry) => Held(p, key)
      BY <1>1 DEF Held
    <3>2. bc_scan.listing[p] # "absent"
      BY <1>0, <1>2 DEF ScanSound
    <3>3. Present(entry) => stat <= bc_clock
      BY <1>0 DEF ProjectInv
    <3> QED BY <1>1, <2>2, <2>3, <3>1, <3>2, <3>3 DEF PathOK, AfterInstant
  <2>5. ASSUME NEW q \in FilePaths \ {p} PROVE PathOK(scan, q)
    BY <1>0, <1>2, <2>2, <2>3, <2>5 DEF PathOK, AfterInstant
  <2>6. ScanSound(scan)
    BY <1>0, <1>2, <2>3, <2>4, <2>5 DEF ScanSound
  <2> QED BY <1>0, <2>1, <2>3, <2>6, SeenSound DEF GoesOn
<1>3. CASE bc_scan.at = "second" /\ Unstable(bc_scan)
  BY <1>3, UnstableGoesOn
<1>4. CASE bc_scan.at = "second" /\ Verified(p, key) /\ bc_scan' = Seen(bc_scan, p)
  <2> HIDE DEF key
  <2>1. bc_scan.keys[p] = key
    BY <1>4 DEF Verified
  <2>2. ASSUME Present(entry) PROVE Confirmed(entry, bc_scan.instant[p])
    <3>1. ~Superseded(p, stat)
      <4>1. Project(p).stat = stat /\ stat \in Nat
        BY <2>2
      <4> QED BY <2>2, <4>1 DEF Superseded
    <3>2. bc_scan.instant[p] = Project(p) /\ bc_scan.loop = LoopFor(Project(p))
      BY <1>0, <1>1, <1>4, <2>1, <2>2, <3>1 DEF PathOK, AfterInstant
    <3>3. Project(p) \in PathStates
      BY <1>0 DEF ProjectInv, Projects, Project
    <3> QED BY <2>2, <3>2, <3>3, EntryFacts DEF Confirmed
  <2> QED BY <1>0, <1>1, <1>4, <2>1, <2>2, SeenSound DEF GoesOn
<1> QED BY <1>2, <1>3, <1>4 DEF Reads

\* A read begins: as lstat has the path.
LEMMA BeginReadSound ==
    ASSUME ProjectInv, Scanning(bc_scan), BeginRead PROVE GoesOn
<1> DEFINE p == Next1
<1>0. /\ bc_scan \in Scans /\ \A q \in FilePaths : PathOK(bc_scan, q)
      /\ bc_scan.at \in {"first", "second"}
      /\ p \in bc_scan.todo /\ p \in FilePaths /\ Project(p) \in PathStates
      /\ p = Min(bc_scan.todo)
  BY NextPath DEF Scanning, ScanSound, BeginRead, ProjectInv, Projects, Project, Next1
<1>1. CASE Project(p) = Gone
  <2>1. Reads(p, Missing, 0)
    BY <1>1 DEF BeginRead
  <2> QED BY <1>0, <2>1, NothingThere, ReadSound
<1>2. CASE Project(p) # Gone
  <2> DEFINE loop == LoopFor(Project(p))
             scan == [bc_scan EXCEPT !.loop = loop, !.before = Project(p)]
  <2>1. bc_scan' = scan
    BY <1>2 DEF BeginRead
  <2>2. loop \in ReadLoops /\ loop # "none"
    BY <1>0, <1>2, EntryFacts
  <2>3. \A q \in FilePaths : q # p => ~(q = Min(bc_scan.todo))
    BY <1>0
  <2> HIDE DEF loop, p
  <2>4. /\ scan \in Scans /\ scan.at = bc_scan.at /\ scan.todo = bc_scan.todo
        /\ scan.instant = bc_scan.instant /\ scan.keys = bc_scan.keys
        /\ scan.listing = bc_scan.listing /\ scan.loop = loop
        /\ scan.purpose = bc_scan.purpose
    BY <1>0, <2>2 DEF Scans
  <2> HIDE DEF scan
  <2>5. ASSUME NEW q \in FilePaths PROVE PathOK(scan, q)
    <3>1. CASE q = p
      BY <1>0, <2>4, <3>1 DEF PathOK, AfterInstant, loop
    <3>2. CASE q # p
      BY <1>0, <2>3, <2>4, <3>2 DEF PathOK, AfterInstant
    <3> QED BY <3>1, <3>2
  <2>6. Scanning(scan)
    BY <2>2, <2>4, <2>5 DEF Scanning, ScanSound
  <2> QED BY <2>1, <2>4, <2>6 DEF GoesOn
<1> QED BY <1>1, <1>2

\* A read that is tried again stays the kind of read it was.
LEMMA BeginAgainSound ==
    ASSUME ProjectInv, Scanning(bc_scan), BeginAgain PROVE GoesOn
<1> DEFINE object == Project(Next1)
<1>0. /\ bc_scan \in Scans /\ \A q \in FilePaths : PathOK(bc_scan, q)
      /\ bc_scan.at \in {"first", "second"} /\ bc_scan.loop # "none"
      /\ object \in PathStates
  BY NextPath DEF Scanning, ScanSound, BeginAgain, ProjectInv, Projects, Project
<1>1. CASE ScanFails
  BY <1>1 DEF ScanFails, GoesOn
<1>2. CASE Retry(bc_scan)
  BY <1>0, <1>2, RetryGoesOn
<1>3. CASE bc_scan' = [bc_scan EXCEPT !.before = object]
  <2> HIDE DEF object
  <2> DEFINE scan == [bc_scan EXCEPT !.before = object]
  <2>1. /\ scan \in Scans /\ scan.at = bc_scan.at /\ scan.todo = bc_scan.todo
        /\ scan.instant = bc_scan.instant /\ scan.keys = bc_scan.keys
        /\ scan.listing = bc_scan.listing /\ scan.loop = bc_scan.loop
        /\ scan.purpose = bc_scan.purpose
    BY <1>0 DEF Scans
  <2> HIDE DEF scan
  <2>2. ASSUME NEW q \in FilePaths PROVE PathOK(scan, q)
    BY <1>0, <2>1 DEF PathOK, AfterInstant
  <2>3. Scanning(scan)
    BY <1>0, <2>1, <2>2 DEF Scanning, ScanSound
  <2> QED BY <1>3, <2>1, <2>3 DEF GoesOn, scan
<1> QED BY <1>1, <1>2, <1>3 DEF BeginAgain

LEMMA EndReadSound ==
    ASSUME ProjectInv, Scanning(bc_scan), EndRead PROVE GoesOn
<1> DEFINE object == Project(Next1)
<1>0. /\ bc_scan \in Scans /\ bc_scan.at \in {"first", "second"}
      /\ bc_scan.loop \in ReadLoops /\ bc_scan.loop # "none" /\ bc_scan.before # Gone
      /\ object \in PathStates
  BY NextPath DEF Scanning, ScanSound, EndRead, ProjectInv, Projects, Project, Scans
<1>1. CASE ScanFails
  BY <1>1 DEF ScanFails, GoesOn
<1>2. CASE Retry(bc_scan)
  BY <1>0, <1>2, RetryGoesOn
<1>3. CASE object = bc_scan.before /\ Reads(Next1, EntryAs(bc_scan.loop, object), object.stat)
  BY <1>0, <1>3, EntryFacts, ReadSound
<1> QED BY <1>1, <1>2, <1>3 DEF EndRead

\* A path is written or removed by others.
ChangedTo(p, new) == /\ bc_project' = [bc_project EXCEPT ![p] = new]
                     /\ new = Gone \/ new.stat = bc_clock + 1
                     /\ new.stat <= bc_clock + 1
                     /\ bc_clock' = bc_clock + 1 /\ UNCHANGED <<bc_git, bc_scan>>

\* What was read of that path is superseded.
LEMMA PathsAfterChange ==
    ASSUME ProjectInv, ScanInv,
           \E p \in FilePaths : RemoveFile(p) \/ \E object \in Objects : WriteFile(p, object)
    PROVE  ProjectInv' /\ ScanInv'
<1>1. PICK p \in FilePaths, new \in PathStates : ChangedTo(p, new)
  <2>1. PICK p \in FilePaths :
           RemoveFile(p) \/ \E object \in Objects : WriteFile(p, object)
    OBVIOUS
  <2>2. CASE RemoveFile(p)
    <3>1. Gone.stat = 0 /\ 0 <= bc_clock + 1
      BY DEF Gone, ProjectInv
    <3> QED BY <2>2, <3>1, NothingThere DEF RemoveFile, ChangedTo
  <2>3. ASSUME NEW object \in Objects, WriteFile(p, object)
        PROVE  \E new \in PathStates : ChangedTo(p, new)
    <3>1. bc_clock + 1 \in Nat /\ bc_clock + 1 <= bc_clock + 1
      BY DEF ProjectInv
    <3>2. object.kind \in {"file", "link", "large"} /\ object.content \in Contents
      BY DEF Objects, Contents
    <3>3. Stat(object, bc_clock + 1) \in PathStates /\ Stat(object, bc_clock + 1).stat = bc_clock + 1
      BY <3>1, <3>2 DEF Stat, PathStates
    <3> QED BY <2>3, <3>1, <3>3 DEF WriteFile, ChangedTo
  <2> QED BY <2>1, <2>2, <2>3
<1>2. /\ bc_clock \in Nat /\ bc_project \in Projects
      /\ \A q \in FilePaths : Project(q).stat \in Nat /\ Project(q).stat <= bc_clock
  BY EntryFacts DEF ProjectInv, Projects, Project
<1>3. /\ bc_project' \in Projects /\ Project(p)' = new
      /\ \A q \in FilePaths \ {p} : Project(q)' = Project(q)
  BY <1>1, <1>2 DEF ChangedTo, Projects, Project
<1>4. ProjectInv'
  <2>1. ASSUME NEW q \in FilePaths PROVE Project(q)'.stat <= bc_clock'
    BY <1>1, <1>2, <1>3 DEF ChangedTo
  <2> QED BY <1>1, <1>2, <1>3, <2>1 DEF ChangedTo, ProjectInv
<1>5. ASSUME bc_scan # NoScan PROVE Scanning(bc_scan)'
  <2>1. Scanning(bc_scan) /\ bc_scan \in Scans
    BY <1>5 DEF ScanInv, Scanning, ScanSound
  <2>2. ASSUME NEW q \in FilePaths PROVE PathOK(bc_scan, q)'
    <3> DEFINE key == bc_scan.keys[q]
    <3>1. PathOK(bc_scan, q) /\ key \in ReadKeys /\ key.stat \in Nat
      BY <2>1 DEF Scanning, ScanSound, Scans, PathKeys, ReadKeys
    <3>2. CASE q # p
      <4>1. /\ Project(q)' = Project(q) /\ bc_git' = bc_git /\ bc_scan' = bc_scan
            /\ key.stat <= bc_clock => key.stat <= bc_clock'
        BY <1>1, <1>2, <1>3, <3>1, <3>2 DEF ChangedTo
      <4> HIDE DEF key
      <4>2. /\ \A stat : Superseded(q, stat) => Superseded(q, stat)'
            /\ \A k : Held(q, k) => Held(q, k)'
            /\ LoopFor(Project(q))' = LoopFor(Project(q))
        BY <4>1 DEF Superseded, Held, EntryAs, LoopFor
      <4>3. \A entry, object : Confirmed(entry, object) => Confirmed(entry, object)'
        BY <4>1 DEF Confirmed, EntryOf, EntryAs
      <4> QED BY <3>1, <4>1, <4>2, <4>3 DEF PathOK, AfterInstant, key
    <3>3. CASE q = p
      <4>1. /\ key.stat <= bc_clock => Superseded(q, key.stat)' /\ key.stat <= bc_clock'
            /\ bc_git' = bc_git /\ bc_scan' = bc_scan
        BY <1>1, <1>2, <1>3, <3>1, <3>3 DEF ChangedTo, Superseded
      <4>2. \A entry, object : Confirmed(entry, object) => Confirmed(entry, object)'
        BY <4>1 DEF Confirmed, EntryOf, EntryAs
      <4> QED BY <3>1, <4>1, <4>2 DEF PathOK, AfterInstant
    <3> QED BY <3>2, <3>3
  <2> QED BY <1>1, <2>1, <2>2 DEF ChangedTo, Scanning, ScanSound
<1>6. ScanInv'
  BY <1>1, <1>5 DEF ChangedTo, ScanInv
<1> QED BY <1>4, <1>6

\* compare: what it makes of a baseline is, wherever something is there, the second snapshot.
LEMMA ChangesApply ==
    ASSUME NEW before, NEW after, NEW p \in FilePaths,
           Present(Applied(before, Changes(before, after))[p])
    PROVE  Applied(before, Changes(before, after))[p] = after[p]
<1> DEFINE added == {q \in FilePaths : ~Present(before[q]) /\ Present(after[q])}
           deleted == {q \in FilePaths : Present(before[q]) /\ ~Present(after[q])}
           both == {q \in FilePaths : Present(before[q]) /\ Present(after[q])}
           renames == Renames(before, after, deleted, added)
           changes == Changes(before, after)
<1>1. /\ changes.renamed = renames
      /\ changes.added = added \ {r.to : r \in renames}
      /\ changes.deleted = deleted \ {r.from : r \in renames}
      /\ changes.typeChanged = {q \in both : before[q].type # after[q].type}
      /\ changes.modified = {q \in both : before[q].type = after[q].type /\ before[q] # after[q]}
      /\ changes.versions = [q \in FilePaths |-> after[q]]
  BY DEF Changes, EntryChanged
<1> HIDE DEF renames, changes
<1>2. CASE p \in changes.added \cup changes.modified \cup changes.typeChanged
                 \cup {r.to : r \in changes.renamed}
  BY <1>1, <1>2 DEF Applied, changes
<1>3. CASE /\ p \notin changes.added \cup changes.modified \cup changes.typeChanged
                        \cup {r.to : r \in changes.renamed}
           /\ p \in changes.deleted \cup {r.from : r \in changes.renamed}
  <2>1. Applied(before, Changes(before, after))[p] = Missing
    BY <1>3 DEF Applied, changes
  <2> QED BY <2>1, NothingThere
<1>4. CASE /\ p \notin changes.added \cup changes.modified \cup changes.typeChanged
                        \cup {r.to : r \in changes.renamed}
           /\ p \notin changes.deleted \cup {r.from : r \in changes.renamed}
  <2>1. Applied(before, Changes(before, after))[p] = before[p]
    BY <1>4 DEF Applied, changes
  <2>2. p \notin deleted
    BY <1>1, <1>4
  <2>3. p \in both
    BY <2>1, <2>2
  <2> QED BY <1>1, <1>4, <2>1, <2>3
<1> QED BY <1>2, <1>3, <1>4

\* What a complete scan has taken down was there at its instant.
LEMMA SnapshotFaithful ==
    ASSUME Scanning(bc_scan), bc_scan.at = "scanned"
    PROVE  /\ Snapshot \in [FilePaths -> FileEntries]
           /\ \A p \in FilePaths : Present(Snapshot[p]) => Confirmed(Snapshot[p], bc_scan.instant[p])
           /\ bc_scan.instant \in Projects
<1>1. bc_scan \in Scans /\ \A p \in FilePaths : PathOK(bc_scan, p)
  BY DEF Scanning, ScanSound
<1>2. \A p \in FilePaths : bc_scan.keys[p].entry \in FileEntries
  BY <1>1 DEF Scans, PathKeys, ReadKeys
<1>3. \A p \in FilePaths : Snapshot[p] = bc_scan.keys[p].entry
  BY DEF Snapshot
<1>4. bc_scan.instant \in Projects
  BY <1>1 DEF Scans
<1> QED BY <1>1, <1>2, <1>3, <1>4 DEF Snapshot, PathOK, AfterInstant

\* The scan alone: the manifests and the report are as they were.
LEMMA ScanStep ==
    ASSUME CaptureInv, OnlyScan, bc_scan # NoScan, GoesOn PROVE CaptureInv'
<1>1. ScanInv'
  BY ScanKept DEF GoesOn
<1>2. UNCHANGED <<bc_git, bc_project, bc_clock, bc_blobs, bc_baselines, bc_report>>
  BY DEF OnlyScan
<1>3. ProjectInv'
  BY <1>2 DEF CaptureInv, ProjectInv, Project
<1>4. \A files, truth : Faithful(files, truth) => Faithful(files, truth)'
  BY <1>2 DEF Faithful, EntryOf, EntryAs
<1>5. BaselinesInv'
  BY <1>2, <1>4 DEF CaptureInv, BaselinesInv, GoesOn, Intact
<1>6. ReportInv'
  BY <1>2, <1>4 DEF CaptureInv, ReportInv
<1> QED BY <1>1, <1>3, <1>5, <1>6 DEF CaptureInv

LEMMA CaptureStep == CaptureInv /\ [CaptureNext]_bcVars => CaptureInv'
<1> SUFFICES ASSUME CaptureInv, [CaptureNext]_bcVars PROVE CaptureInv'
  OBVIOUS
<1>0. ProjectInv /\ ScanInv /\ BaselinesInv /\ ReportInv
  BY DEF CaptureInv
<1>1. CASE UNCHANGED bcVars
  BY <1>0, <1>1 DEF bcVars, CaptureInv, ProjectInv, ScanInv, Scanning, ScanSound, PathOK, AfterInstant,
         Held, Superseded, Confirmed, BaselinesInv, ReportInv, Project, Faithful, EntryOf, EntryAs,
         LoopFor, Intact
<1>2. CASE \E p \in FilePaths : RemoveFile(p) \/ \E object \in Objects : WriteFile(p, object)
  <2>1. UNCHANGED <<bc_git, bc_scan, bc_blobs, bc_baselines, bc_report>>
    BY <1>2 DEF RemoveFile, WriteFile
  <2>2. ProjectInv' /\ ScanInv'
    BY <1>0, <1>2, PathsAfterChange
  <2>3. \A files, truth : Faithful(files, truth) => Faithful(files, truth)'
    BY <2>1 DEF Faithful, EntryOf, EntryAs
  <2>4. BaselinesInv' /\ ReportInv'
    BY <1>0, <2>1, <2>3 DEF BaselinesInv, ReportInv, Intact
  <2> QED BY <2>2, <2>4 DEF CaptureInv
<1>3. CASE Discover \/ Rediscover \/ BeginRead \/ BeginAgain \/ EndRead
  <2>1. OnlyScan /\ bc_scan # NoScan
    BY <1>3 DEF Discover, Rediscover, BeginRead, BeginAgain, EndRead, NoScan
  <2>2. Scanning(bc_scan)
    BY <1>0, <2>1 DEF ScanInv
  <2>3. GoesOn
    BY <1>0, <1>3, <2>2, DiscoverSound, RediscoverSound, BeginReadSound, BeginAgainSound, EndReadSound
  <2> QED BY <2>1, <2>3, ScanStep
<1>4. ASSUME NEW kind \in BaselineKinds, Capture(kind) \/ Compare(kind) PROVE CaptureInv'
  <2>1. PICK purpose \in Purposes :
           /\ bc_scan' = ScanFrom(purpose, 1) /\ OnlyScan
           /\ purpose = "attempt" => bc_baselines["task"] # NoManifest
           /\ \A k \in BaselineKinds :
                  /\ purpose = k => bc_baselines[k] = NoManifest
                  /\ purpose = Window(k) => bc_baselines[k] # NoManifest
    <3>1. CASE Capture(kind)
      <4>1. kind \in Purposes /\ \A k \in BaselineKinds : kind # Window(k)
        BY DEF Purposes, BaselineKinds, Window
      <4> QED BY <3>1, <4>1 DEF Capture, Loads, Intact
    <3>2. CASE Compare(kind)
      <4>1. /\ Window(kind) \in Purposes /\ Window(kind) \notin BaselineKinds
            /\ \A k \in BaselineKinds : Window(k) = Window(kind) => k = kind
        BY DEF Purposes, BaselineKinds, Window
      <4> QED BY <3>2, <4>1 DEF Compare, Loads, Intact, BaselineKinds
    <3> QED BY <1>4, <3>1, <3>2
  <2>2. Scanning(bc_scan') /\ bc_scan'.purpose = purpose
    BY <2>1, RestartSound
  <2>3. ScanInv'
    BY <2>1, <2>2, ScanKept
  <2>4. UNCHANGED <<bc_git, bc_project, bc_clock, bc_blobs, bc_baselines, bc_report>>
    BY <2>1 DEF OnlyScan
  <2>5. ProjectInv'
    BY <1>0, <2>4 DEF ProjectInv, Project
  <2>6. \A files, truth : Faithful(files, truth) => Faithful(files, truth)'
    BY <2>4 DEF Faithful, EntryOf, EntryAs
  <2>7. BaselinesInv'
    BY <1>0, <2>1, <2>2, <2>4, <2>6 DEF BaselinesInv, Intact
  <2>8. ReportInv'
    BY <1>0, <2>4, <2>6 DEF ReportInv
  <2> QED BY <2>3, <2>5, <2>7, <2>8 DEF CaptureInv
<1>5. CASE Abandon
  BY <1>0, <1>5, ScanStep DEF Abandon, ScanFails, GoesOn
<1>6. CASE InstallBlob
  <2>1. /\ UNCHANGED <<bc_git, bc_project, bc_clock, bc_scan, bc_baselines, bc_report>>
        /\ bc_blobs \subseteq bc_blobs'
    BY <1>6 DEF InstallBlob
  <2>2. ProjectInv' /\ ScanInv'
    BY <1>0, <2>1 DEF ProjectInv, ScanInv, Scanning, ScanSound, PathOK, AfterInstant, Held, Superseded,
           Confirmed, Project, EntryOf, EntryAs, LoopFor
  <2>3. \A files, truth : Faithful(files, truth) => Faithful(files, truth)'
    BY <2>1 DEF Faithful, EntryOf, EntryAs
  <2>4. \A kind \in BaselineKinds : Intact(kind) => Intact(kind)'
    BY <2>1 DEF Intact
  <2>5. BaselinesInv' /\ ReportInv'
    BY <1>0, <2>1, <2>3, <2>4 DEF BaselinesInv, ReportInv
  <2> QED BY <2>2, <2>5 DEF CaptureInv
<1>7. CASE Complete
  <2> DEFINE manifest == [files |-> Snapshot, truth |-> bc_scan.instant]
             purpose == bc_scan.purpose
  <2>1. /\ bc_scan.at = "scanned" /\ bc_scan # NoScan /\ purpose \in BaselineKinds
        /\ bc_baselines' = [bc_baselines EXCEPT ![purpose] = manifest] /\ bc_scan' = NoScan
        /\ UNCHANGED <<bc_git, bc_project, bc_clock, bc_blobs, bc_report>>
    BY <1>7 DEF Complete, NoScan
  <2>2. Scanning(bc_scan)
    BY <1>0, <2>1 DEF ScanInv
  <2>3. /\ manifest \in Manifests /\ Faithful(manifest.files, manifest.truth)
        /\ \A p \in FilePaths : manifest.files[p].hash \in bc_blobs \cup {NoHash}
    <3>1. manifest \in Manifests
      BY <2>1, <2>2, SnapshotFaithful DEF Manifests
    <3>2. Faithful(Snapshot, bc_scan.instant)
      BY <2>1, <2>2, SnapshotFaithful DEF Faithful, Confirmed
    <3>3. \A p \in FilePaths : Snapshot[p].hash \in bc_blobs \cup {NoHash}
      BY <1>7 DEF Complete, ContentsInstalled, Pending
    <3> QED BY <3>1, <3>2, <3>3
  <2> HIDE DEF manifest, purpose
  <2>4. /\ bc_baselines' \in [BaselineKinds -> {NoManifest} \cup Manifests]
        /\ bc_baselines'[purpose] = manifest
        /\ \A k \in BaselineKinds \ {purpose} : bc_baselines'[k] = bc_baselines[k]
        /\ bc_baselines[purpose] = NoManifest
        /\ purpose = "attempt" => bc_baselines["task"] # NoManifest
    BY <1>0, <2>1, <2>3 DEF BaselinesInv, purpose
  <2>5. \A files, truth : Faithful(files, truth) => Faithful(files, truth)'
    BY <2>1 DEF Faithful, EntryOf, EntryAs
  <2>6. ProjectInv' /\ ScanInv'
    BY <1>0, <2>1 DEF ProjectInv, Project, ScanInv
  <2>7. BaselinesInv'
    <3>1. ASSUME NEW k \in BaselineKinds, bc_baselines'[k] # NoManifest
          PROVE  /\ Intact(k)' /\ bc_baselines'["task"] # NoManifest
                 /\ Faithful(bc_baselines[k].files, bc_baselines[k].truth)'
      <4>1. CASE k = purpose
        <5>1. Intact(k)'
          BY <2>1, <2>3, <2>4, <3>1, <4>1 DEF Intact
        <5>2. bc_baselines'["task"] # NoManifest
          BY <2>4, <3>1, <4>1 DEF BaselineKinds
        <5>3. Faithful(bc_baselines[k].files, bc_baselines[k].truth)'
          BY <2>1, <2>3, <2>4, <4>1 DEF Faithful, EntryOf, EntryAs
        <5> QED BY <5>1, <5>2, <5>3
      <4>2. CASE k # purpose
        <5>1. /\ Intact(k) /\ bc_baselines["task"] # NoManifest
              /\ Faithful(bc_baselines[k].files, bc_baselines[k].truth)
          BY <1>0, <2>4, <3>1, <4>2 DEF BaselinesInv
        <5>2. bc_baselines'["task"] # NoManifest
          BY <2>4, <5>1 DEF BaselineKinds
        <5> QED BY <2>1, <2>4, <2>5, <4>2, <5>1, <5>2 DEF Intact
      <4> QED BY <4>1, <4>2
    <3> QED BY <2>1, <2>4, <3>1 DEF BaselinesInv
  <2>8. ReportInv'
    <3>1. bc_report # NoReport => bc_report.of # purpose
      BY <1>0, <2>4 DEF ReportInv
    <3> QED BY <1>0, <2>1, <2>4, <2>5, <3>1 DEF ReportInv
  <2> QED BY <2>6, <2>7, <2>8 DEF CaptureInv
<1>8. CASE Report
  <2>1. PICK kind \in BaselineKinds :
           /\ bc_scan.purpose = Window(kind)
           /\ bc_report' = [of |-> kind, changes |-> Changes(bc_baselines[kind].files, Snapshot),
                            truth |-> bc_scan.instant]
    BY <1>8 DEF Report
  <2>2. /\ bc_scan.at = "scanned" /\ bc_scan # NoScan /\ bc_scan' = NoScan
        /\ UNCHANGED <<bc_git, bc_project, bc_clock, bc_blobs, bc_baselines>>
    BY <1>8 DEF Report, NoScan
  <2>3. Scanning(bc_scan) /\ bc_baselines[kind] # NoManifest
    BY <1>0, <2>1, <2>2 DEF ScanInv, BaselinesInv
  <2> DEFINE files == bc_baselines[kind].files
             changes == Changes(files, Snapshot)
  <2>4. Faithful(Applied(files, changes), bc_scan.instant)
    <3> SUFFICES ASSUME NEW p \in FilePaths, Present(Applied(files, changes)[p])
                 PROVE  Confirmed(Applied(files, changes)[p], bc_scan.instant[p])
      BY DEF Faithful, Confirmed
    <3>1. Applied(files, changes)[p] = Snapshot[p]
      BY ChangesApply
    <3> QED BY <2>2, <2>3, <3>1, SnapshotFaithful
  <2>5. \A f, truth : Faithful(f, truth) => Faithful(f, truth)'
    BY <2>2 DEF Faithful, EntryOf, EntryAs
  <2>6. ReportInv'
    <3>1. /\ bc_report'.of = kind /\ bc_report'.changes = changes
          /\ bc_report'.truth = bc_scan.instant /\ bc_baselines' = bc_baselines
      BY <2>1, <2>2
    <3> HIDE DEF changes
    <3> QED BY <2>3, <2>4, <2>5, <3>1 DEF ReportInv
  <2>7. ProjectInv' /\ ScanInv' /\ BaselinesInv'
    <3>1. BaselinesInv'
      BY <1>0, <2>2, <2>5 DEF BaselinesInv, Intact
    <3> QED BY <1>0, <2>2, <3>1 DEF ProjectInv, Project, ScanInv
  <2> QED BY <2>6, <2>7 DEF CaptureInv
<1> QED BY <1>1, <1>2, <1>3, <1>4, <1>5, <1>6, <1>7, <1>8 DEF CaptureNext

LEMMA CaptureInitially == CaptureInit => CaptureInv
<1> SUFFICES ASSUME CaptureInit PROVE CaptureInv
  OBVIOUS
<1> DEFINE original == Stat([kind |-> "file", content |-> "a"], 0)
<1>1. /\ original \in PathStates /\ original.stat = 0
      /\ Gone \in PathStates /\ Gone.stat = 0
  BY DEF PathStates, Stat, Contents, Gone
<1> HIDE DEF original
<1>2. ProjectInv
  BY <1>1 DEF CaptureInit, ProjectInv, Projects, Project, original
<1>3. bc_scan = NoScan /\ bc_report = NoReport /\ \A k \in BaselineKinds : bc_baselines[k] = NoManifest
  BY DEF CaptureInit
<1>4. bc_baselines \in [BaselineKinds -> {NoManifest} \cup Manifests]
  BY DEF CaptureInit
<1> QED BY <1>2, <1>3, <1>4 DEF CaptureInv, ScanInv, BaselinesInv, ReportInv

\* The inductive invariant of a capture: what each scan has read and checked, what the
\* stored baselines hold of the project of their instant, and what a report compares.
THEOREM CaptureSafety == CaptureSpec => []CaptureInv
BY CaptureInitially, CaptureStep, PTL DEF CaptureSpec

\* scan-snapshot, compareSnapshots: a stored baseline and a change set over it are the
\* project of one instant, for any number of paths, writes by others and attempts.
THEOREM ChangesAreOfOneInstant == CaptureSpec => []ChangeSetsAreOfOneInstant
<1>1. CaptureInv => ChangeSetsAreOfOneInstant
  BY DEF CaptureInv, BaselinesInv, ReportInv, ChangeSetsAreOfOneInstant
<1> QED BY <1>1, CaptureSafety, PTL

\* completeBaselineManifest: a name is given only to what can be loaded, and stays so.
THEOREM NamedBaselinesLoad == CaptureSpec => []NamedBaselineLoads
<1>1. CaptureInv => NamedBaselineLoads
  BY DEF CaptureInv, BaselinesInv, NamedBaselineLoads, Loads, BaselineKinds, Intact
<1> QED BY <1>1, CaptureSafety, PTL

-----------------------------------------------------------------------------
(* Types of a capture, of a build, and of the components on disk together.        *)

\* A scan repeats a read, and itself, as often as it may.
InLimits(scan) == scan.reads \in 1 .. MaxReads /\ scan.scans \in 1 .. MaxScans
CaptureBounds == /\ bc_clock \in 0 .. MaxChanges /\ bc_blobs \subseteq Contents
                 /\ bc_scan # NoScan => InLimits(bc_scan)

LEMMA UnstableLimits ==
    ASSUME bc_scan \in Scans, InLimits(bc_scan), Unstable(bc_scan), bc_scan' # NoScan
    PROVE  InLimits(bc_scan')
<1>1. bc_scan' = ScanFrom(bc_scan.purpose, bc_scan.scans + 1) /\ bc_scan.scans < MaxScans
  BY DEF Unstable
<1>2. bc_scan'.reads = 1 /\ bc_scan'.scans = bc_scan.scans + 1
  BY <1>1 DEF ScanFrom
<1> QED BY <1>1, <1>2, CaptureAssumption DEF InLimits

LEMMA RetryLimits ==
    ASSUME bc_scan \in Scans, InLimits(bc_scan), Retry(bc_scan), bc_scan' # NoScan
    PROVE  InLimits(bc_scan')
<1>1. CASE bc_scan.reads < MaxReads
  <2>1. bc_scan'.reads = bc_scan.reads + 1 /\ bc_scan'.scans = bc_scan.scans
    BY <1>1 DEF Retry, Scans
  <2> QED BY <1>1, <2>1, CaptureAssumption DEF InLimits
<1>2. CASE ~(bc_scan.reads < MaxReads)
  BY <1>2, UnstableLimits DEF Retry
<1> QED BY <1>1, <1>2

LEMMA SeenLimits ==
    ASSUME bc_scan \in Scans, InLimits(bc_scan), NEW p, NEW key,
           bc_scan' = Seen(bc_scan, p) \/ bc_scan' = Seen([bc_scan EXCEPT !.keys[p] = key], p)
    PROVE  InLimits(bc_scan')
<1>1. bc_scan'.reads = 1 /\ bc_scan'.scans = bc_scan.scans
  BY DEF Seen, Advanced, Scans
<1> QED BY <1>1, CaptureAssumption DEF InLimits

LEMMA ScanLimits ==
    ASSUME CaptureInv, CaptureBounds, bc_scan' # NoScan,
           Discover \/ Rediscover \/ BeginRead \/ BeginAgain \/ EndRead
    PROVE  InLimits(bc_scan')
<1>1. bc_scan \in Scans /\ InLimits(bc_scan)
  BY DEF CaptureInv, CaptureBounds, ScanInv, Scanning, ScanSound, Discover, Rediscover, BeginRead,
         BeginAgain, EndRead, NoScan
<1>2. CASE bc_scan'.reads = bc_scan.reads /\ bc_scan'.scans = bc_scan.scans
  BY <1>1, <1>2 DEF InLimits
<1>3. ASSUME NEW p, NEW entry, NEW stat, Reads(p, entry, stat) PROVE InLimits(bc_scan')
  <2> DEFINE key == [entry |-> entry, stat |-> stat]
  <2>1. \/ bc_scan' = Seen(bc_scan, p) \/ bc_scan' = Seen([bc_scan EXCEPT !.keys[p] = key], p)
        \/ Unstable(bc_scan)
    BY <1>3 DEF Reads
  <2> HIDE DEF key
  <2> QED BY <1>1, <2>1, SeenLimits, UnstableLimits
<1>4. CASE Discover
  BY <1>1, <1>2, <1>4 DEF Discover, Scans
<1>5. CASE Rediscover
  BY <1>1, <1>5, SeenLimits, UnstableLimits DEF Rediscover
<1>6. CASE BeginRead
  BY <1>1, <1>2, <1>3, <1>6 DEF BeginRead, Scans
<1>7. CASE BeginAgain
  BY <1>1, <1>2, <1>7, RetryLimits DEF BeginAgain, ScanFails, Scans
<1>8. CASE EndRead
  BY <1>1, <1>3, <1>8, RetryLimits DEF EndRead, ScanFails
<1> QED BY <1>4, <1>5, <1>6, <1>7, <1>8

LEMMA BoundsStep ==
    CaptureInv /\ CaptureBounds /\ [CaptureNext]_bcVars => CaptureBounds'
<1> SUFFICES ASSUME CaptureInv, CaptureBounds, [CaptureNext]_bcVars PROVE CaptureBounds'
  OBVIOUS
<1>0. MaxChanges \in Nat /\ MaxReads \in Nat \ {0} /\ MaxScans \in Nat \ {0}
  BY CaptureAssumption
<1>1. CASE UNCHANGED bcVars
  BY <1>1 DEF bcVars, CaptureBounds, InLimits
<1>2. CASE \E p \in FilePaths : RemoveFile(p) \/ \E object \in Objects : WriteFile(p, object)
  BY <1>0, <1>2 DEF RemoveFile, WriteFile, CaptureBounds, InLimits
<1>3. CASE Discover \/ Rediscover \/ BeginRead \/ BeginAgain \/ EndRead
  <2>1. OnlyScan
    BY <1>3 DEF Discover, Rediscover, BeginRead, BeginAgain, EndRead
  <2> QED BY <1>3, <2>1, ScanLimits DEF CaptureBounds, OnlyScan
<1>4. ASSUME NEW kind \in BaselineKinds, Capture(kind) \/ Compare(kind) PROVE CaptureBounds'
  <2>1. PICK purpose : bc_scan' = ScanFrom(purpose, 1) /\ OnlyScan
    BY <1>4 DEF Capture, Compare
  <2>2. bc_scan'.reads = 1 /\ bc_scan'.scans = 1
    BY <2>1 DEF ScanFrom
  <2> QED BY <1>0, <2>1, <2>2 DEF CaptureBounds, InLimits, OnlyScan
<1>5. CASE Abandon \/ Complete \/ Report
  BY <1>5 DEF Abandon, Complete, Report, ScanFails, OnlyScan, CaptureBounds
<1>6. CASE InstallBlob
  <2>1. bc_scan \in Scans
    BY <1>6 DEF InstallBlob, CaptureInv, ScanInv, Scanning, ScanSound, NoScan
  <2>2. Pending \subseteq Contents
    BY <2>1 DEF Pending, Snapshot, Scans, PathKeys, ReadKeys, FileEntries, Hashes
  <2> QED BY <1>6, <2>2 DEF InstallBlob, CaptureBounds, InLimits
<1> QED BY <1>1, <1>2, <1>3, <1>4, <1>5, <1>6 DEF CaptureNext

LEMMA CaptureTypes == CaptureInv /\ CaptureBounds => CaptureTypeOK
<1> SUFFICES ASSUME CaptureInv, CaptureBounds PROVE CaptureTypeOK
  OBVIOUS
<1>1. ASSUME NEW p \in FilePaths PROVE Project(p) = Gone \/ Project(p).stat \in 0 .. MaxChanges
  <2>1. Project(p) \in PathStates /\ Project(p).stat <= bc_clock /\ bc_clock \in 0 .. MaxChanges
    BY DEF CaptureInv, CaptureBounds, ProjectInv, Projects, Project
  <2>2. Project(p) = Gone \/ Project(p).stat \in Nat
    BY <2>1 DEF PathStates
  <2> QED BY <2>1, <2>2, CaptureAssumption
<1>2. \A kind \in BaselineKinds : bc_baselines[kind] # NoManifest =>
          bc_baselines[kind].files \in [FilePaths -> FileEntries]
  BY DEF CaptureInv, BaselinesInv, Manifests
<1>3. bc_scan # NoScan => bc_scan.todo \subseteq FilePaths
  BY DEF CaptureInv, ScanInv, Scanning, ScanSound, Scans, PathSets
<1> QED BY <1>1, <1>2, <1>3 DEF CaptureInv, ProjectInv, CaptureBounds, InLimits, CaptureTypeOK

\* Each component's invariant, and what it starts from, make that of them together.
DurableInv == /\ Typed /\ WorkspaceInv /\ ControlInv /\ CaptureInv /\ CaptureBounds
              /\ HelperInv

LEMMA DurableStep == DurableInv /\ [DurableNext]_durableVars => DurableInv'
<1> SUFFICES ASSUME DurableInv, [DurableNext]_durableVars PROVE DurableInv'
  OBVIOUS
<1>1. [WorkspaceNext]_wsVars /\ [ControlNext]_tcVars /\ [CaptureNext]_bcVars /\ [BuildNext]_hbVars
  <2>1. CASE UNCHANGED durableVars
    BY <2>1 DEF durableVars
  <2>2. CASE DurableNext
    BY <2>2 DEF DurableNext
  <2> QED BY <2>1, <2>2
<1>2. Typed' /\ WorkspaceInv'
  BY <1>1, WorkspaceSafetyStep DEF DurableInv
<1>3. ControlInv'
  BY <1>1, ControlStep DEF DurableInv
<1>4. CaptureInv' /\ CaptureBounds'
  BY <1>1, CaptureStep, BoundsStep DEF DurableInv
<1>5. HelperInv'
  BY <1>1, BuildStep DEF DurableInv
<1> QED BY <1>2, <1>3, <1>4, <1>5 DEF DurableInv

\* The records of the workspace, of the control services, of a capture and of a build keep
\* their shape, a scan stays within its limits, and every hash is one of a content.
THEOREM DurableTyped == DurableSpec => []DurableTypeOK
<1>1. DurableInit => DurableInv
  <2> SUFFICES ASSUME DurableInit PROVE DurableInv
    OBVIOUS
  <2>1. WorkspaceInit /\ ControlInit /\ CaptureInit /\ BuildInit
    BY DEF DurableInit
  <2>2. CaptureBounds
    BY <2>1, CaptureAssumption DEF CaptureInit, CaptureBounds
  <2> QED BY <2>1, <2>2, WorkspaceInitially, ControlInitially, CaptureInitially, BuildInitially
          DEF DurableInv
<1>2. DurableInv => DurableTypeOK
  <2> SUFFICES ASSUME DurableInv PROVE DurableTypeOK
    OBVIOUS
  <2>1. WorkspaceTypeOK /\ ControlTypeOK
    BY WorkspaceTypes, ControlTypes DEF DurableInv
  <2>2. CaptureTypeOK
    BY CaptureTypes DEF DurableInv
  <2>3. BuildTypeOK
    BY DEF DurableInv, HelperInv, LocksTyped, ClaimsInv, LockRows, BuilderRows, BuilderAts,
           BuildTypeOK
  <2> QED BY <2>1, <2>2, <2>3 DEF DurableTypeOK
<1> QED BY <1>1, <1>2, DurableStep, PTL DEF DurableSpec
=============================================================================
