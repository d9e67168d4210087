----------------------------- MODULE HelperBuild ------------------------------
(* The lock between the processes that build the native helper                   *)
(* (src/scripts/lib/build-lock.mjs, src/scripts/run-build.mjs,                   *)
(* src/scripts/run-locked-step.mjs).                                             *)
(*                                                                               *)
(* The lock is a directory that is renamed into place with its owner in it; a    *)
(* process gives it back, or takes it from a dead owner, by renaming it away     *)
(* under a name of its own, looking at what it has got, and deleting it.  Every  *)
(* process makes one owner record, so a lock is named by its process here; and   *)
(* no process has the number of an earlier one.                                  *)
EXTENDS Naturals, FiniteSets

CONSTANTS Builders,  \* processes, numbered
          MaxDamage  \* owner records that become unreadable

ASSUME BuildAssumption == Builders \subseteq Nat \ {0} /\ MaxDamage \in Nat

VARIABLES hb_canon,  \* the lock at the canonical path, or 0
          hb_lock,   \* per lock: older than its lifetime, readable, deleted
          hb_proc    \* per process: where it is, and whose child it is

hbVars == <<hb_canon, hb_lock, hb_proc>>

BuildTypeOK ==
    /\ hb_canon \in {0} \cup Builders
    /\ hb_lock \in [Builders -> [old : BOOLEAN, damaged : BOOLEAN, deleted : BOOLEAN]]
    /\ hb_proc \in [Builders ->
          [at : {"unborn", "waiting", "claiming", "renaming", "verifying", "holding",
                 "releasing", "unlocking", "released", "ended"},
           lock : {0} \cup Builders,   \* the lock it claims,
           byDir : BOOLEAN,            \* ... for want of an owner to ask
           moved : {0} \cup Builders,  \* the lock it has renamed away
           nested : BOOLEAN, parent : {0} \cup Builders]]

IsAt(p, at) == hb_proc[p].at = at
Dead(p) == IsAt(p, "ended")
Lock(q) == hb_lock[q]

\* A process that waits again, or has ended, remembers no claim.
Goes(p, at) == hb_proc' = [hb_proc EXCEPT ![p] =
    IF at \in {"waiting", "ended"}
    THEN [@ EXCEPT !.at = at, !.lock = 0, !.byDir = FALSE, !.moved = 0]
    ELSE [@ EXCEPT !.at = at]]
OnlyProc == UNCHANGED <<hb_canon, hb_lock>>
-----------------------------------------------------------------------------
\* Acquire

\* Processes are numbered as they start.
IsNext(p) == IsAt(p, "unborn") /\ \A q \in Builders : q < p => ~IsAt(q, "unborn")

Start(p) ==
    /\ IsNext(p) /\ Goes(p, "waiting")
    /\ OnlyProc

\* A build runs its steps as children, one after the other, and gives them its token.
Children(p) == {c \in Builders : hb_proc[c].parent = p}

StartChild(p, c) ==
    /\ IsAt(p, "holding") /\ IsNext(c) /\ ~hb_proc[p].nested
    /\ \A d \in Children(p) : Dead(d)
    /\ hb_proc' = [hb_proc EXCEPT ![c] = [@ EXCEPT !.at = "waiting", !.parent = p]]
    /\ OnlyProc

\* The lock is the parent's, who lives: the child works under it.
Reenter(c) ==
    LET p == hb_proc[c].parent IN
    /\ IsAt(c, "waiting") /\ p # 0 /\ hb_canon = p
    /\ ~Lock(p).damaged /\ ~Dead(p)
    /\ hb_proc' = [hb_proc EXCEPT ![c] = [@ EXCEPT !.at = "holding", !.nested = TRUE]]
    /\ OnlyProc

\* publishInitializedLock: the rename fails if there is a lock by now.
Publish(p) ==
    /\ IsAt(p, "waiting") /\ hb_canon = 0
    /\ hb_canon' = p
    /\ Goes(p, "holding")
    /\ UNCHANGED hb_lock

\* Waiting costs time, and not for ever.
TimeOut(p) == /\ IsAt(p, "waiting") /\ hb_canon # 0
              /\ Goes(p, "ended") /\ OnlyProc

Expire(q) == /\ hb_canon = q /\ ~Lock(q).old
             /\ hb_lock' = [hb_lock EXCEPT ![q].old = TRUE]
             /\ UNCHANGED <<hb_canon, hb_proc>>

\* owner.json becomes unreadable.
Damage(q) == /\ hb_canon = q /\ ~Lock(q).damaged
             /\ Cardinality({r \in Builders : Lock(r).damaged}) < MaxDamage
             /\ hb_lock' = [hb_lock EXCEPT ![q].damaged = TRUE]
             /\ UNCHANGED <<hb_canon, hb_proc>>

\* Mutation: an old lock is stale whether its owner lives or not.
StaleByAge(q) == Lock(q).old

\* A lock that is read to be dead and old; or old, and without an owner to ask.
Stale(q) == Lock(q).old /\ (Lock(q).damaged \/ Dead(q))

Claim(p) == /\ IsAt(p, "waiting") /\ hb_canon # 0 /\ Stale(hb_canon)
            /\ hb_proc' = [hb_proc EXCEPT ![p] = [@ EXCEPT !.at = "claiming", !.lock = hb_canon,
                                                          !.byDir = Lock(hb_canon).damaged]]
            /\ OnlyProc

\* quarantineAndRemoveLockIdentityBound looks again.
Recheck(p) ==
    LET unchanged == hb_canon = hb_proc[p].lock /\ hb_proc[p].byDir = Lock(hb_canon).damaged IN
    /\ IsAt(p, "claiming")
    /\ Goes(p, IF hb_canon # 0 /\ unchanged THEN "renaming" ELSE "waiting")
    /\ OnlyProc

\* withTransientFsRetry: what fails for a moment is done again with its check, and
\* given up in the end.
FailsForNow(p) == \E at \in {"claiming", "waiting"} : Goes(p, at) /\ OnlyProc

\* The rename takes whatever is there.
Quarantine(p) ==
    /\ IsAt(p, "renaming")
    /\ \/ /\ hb_canon # 0
          /\ hb_canon' = 0
          /\ hb_proc' = [hb_proc EXCEPT ![p] = [@ EXCEPT !.at = "verifying", !.moved = hb_canon]]
          /\ UNCHANGED hb_lock
       \/ hb_canon = 0 /\ Goes(p, "waiting") /\ OnlyProc
       \/ FailsForNow(p)

\* Mutation: what has been renamed away is deleted.
TrustTheRename(p) == TRUE

\* What has been renamed away is looked at before it is deleted.
IsWhatItClaimed(p) ==
    LET b == hb_proc[p] IN
    IF b.byDir THEN Lock(b.moved).damaged ELSE b.moved = b.lock /\ ~Lock(b.moved).damaged

\* A lock that is not the one claimed stays where it is, away from the canonical path.
DeleteQuarantined(p) ==
    /\ IsAt(p, "verifying")
    /\ hb_lock' = IF IsWhatItClaimed(p) THEN [hb_lock EXCEPT ![hb_proc[p].moved].deleted = TRUE]
                                        ELSE hb_lock
    /\ Goes(p, "waiting")
    /\ UNCHANGED hb_canon
-----------------------------------------------------------------------------
\* Release

\* The step is done, or the build with the last of its children; whether it went well
\* or not.  A child under its parent's lock has none of its own to give back.
EndStep(p) ==
    /\ IsAt(p, "holding") /\ \A c \in Children(p) : Dead(c)
    /\ Goes(p, IF hb_proc[p].nested THEN "ended" ELSE "releasing")
    /\ OnlyProc

\* releaseBuildLock: it throws unless the lock is there and its own.
CheckOwn(p) ==
    /\ IsAt(p, "releasing")
    /\ Goes(p, IF hb_canon = p /\ ~Lock(p).damaged THEN "unlocking" ELSE "ended")
    /\ OnlyProc

\* The rename takes whatever is there; what fails for a moment is checked and done again.
Unlock(p) ==
    /\ IsAt(p, "unlocking")
    /\ \/ /\ hb_canon # 0
          /\ hb_canon' = 0
          /\ hb_proc' = [hb_proc EXCEPT ![p] = [@ EXCEPT !.at = "released", !.moved = hb_canon]]
          /\ UNCHANGED hb_lock
       \/ (\E at \in {"releasing", "ended"} : Goes(p, at)) /\ OnlyProc

\* What has been renamed away is looked at here too.
DeleteReleased(p) ==
    /\ IsAt(p, "released")
    /\ hb_lock' = IF hb_proc[p].moved = p /\ ~Lock(p).damaged
                  THEN [hb_lock EXCEPT ![p].deleted = TRUE] ELSE hb_lock
    /\ Goes(p, "ended")
    /\ UNCHANGED hb_canon

Crash(p) == /\ ~Dead(p) /\ ~IsAt(p, "unborn")
            /\ Goes(p, "ended") /\ OnlyProc
-----------------------------------------------------------------------------
BuildInit ==
    /\ hb_canon = 0
    /\ hb_lock = [q \in Builders |-> [old |-> FALSE, damaged |-> FALSE, deleted |-> FALSE]]
    /\ hb_proc = [p \in Builders |-> [at |-> "unborn", lock |-> 0, byDir |-> FALSE,
                                      moved |-> 0, nested |-> FALSE, parent |-> 0]]

BuildNext == \E p \in Builders :
    \/ Start(p) \/ Reenter(p) \/ Publish(p) \/ TimeOut(p) \/ Expire(p) \/ Damage(p)
    \/ Claim(p) \/ Recheck(p) \/ Quarantine(p) \/ DeleteQuarantined(p)
    \/ EndStep(p) \/ CheckOwn(p) \/ Unlock(p) \/ DeleteReleased(p) \/ Crash(p)
    \/ \E c \in Builders : StartChild(p, c)

BuildSpec == BuildInit /\ [][BuildNext]_hbVars
-----------------------------------------------------------------------------
\* A lock is deleted by its owner, or after its owner; or it is damaged.  A process that
\* has waited too long over its claim, or over the release of a lock it has lost, never
\* deletes the lock of a successor.
SuccessorIsNeverDeleted ==
    [][\A q \in Builders : hb_lock'[q].deleted /\ ~Lock(q).deleted
           => Dead(q) \/ IsAt(q, "released") \/ Lock(q).damaged]_hbVars
=============================================================================
