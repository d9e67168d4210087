---------------------------- MODULE ExclusiveRoots ----------------------------
(* What the project lock promises: a task is granted its project root only if  *)
(* no task holds a root that equals, contains or lies inside it.               *)
EXTENDS Naturals, Sequences

CONSTANTS Tasks,  \* the tasks
          Root    \* canonical project root of each task, as a sequence of names

VARIABLE holders  \* the tasks that hold their root

SameOrChild(parent, candidate) ==
    \E k \in 0..Len(candidate) : SubSeq(candidate, 1, k) = parent

Overlap(t, u) == SameOrChild(Root[t], Root[u]) \/ SameOrChild(Root[u], Root[t])

Grant(t) == /\ \A u \in holders : ~Overlap(t, u)
            /\ holders' = holders \cup {t}

Withdraw(t) == holders' = holders \ {t}

ExclusiveInit == holders = {}
ExclusiveNext == \E t \in Tasks : Grant(t) \/ Withdraw(t)
ExclusiveSpec == ExclusiveInit /\ [][ExclusiveNext]_holders
=============================================================================
