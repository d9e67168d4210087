--------------------------- MODULE CandidateProofs ---------------------------
(* Safety of the candidate workspace for any files and any number of attempts:  *)
(* nothing is worked on once a candidate has reached the project, what the user *)
(* has edited survives a promotion, what is promoted is current, and the writes *)
(* of the project are those it is promised (ProjectWrites).                     *)
EXTENDS CandidateWorkspace, TLAPS

-----------------------------------------------------------------------------
(* Type correctness.  Each kind of edit keeps a row, a tree, the project and the *)
(* patch in their types.                                                        *)

TreeContents == {Source} \cup Attempts      \* what agents and baselines put into a tree
RowOwner == {Nobody} \cup Attempts
WorkspaceRows == [Attempts -> [status : Statuses, attempt : RowOwner, consumed : BOOLEAN,
                      expired : BOOLEAN, retained : {"unset", "running", "over"}]]
CandidateTrees == [Files -> TreeContents]
Launching == [attempt : Attempts, row : Attempts]
Authorities == [row : RowOwner, attempt : RowOwner]
Evidences == [row : RowOwner, attempt : RowOwner, tree : CandidateTrees]
PatchStages == {"idle", "validating", "stage", "commit", "applied"}
Patches == [row : RowOwner, todo : SUBSET Files, done : SUBSET Files, at : PatchStages]
Stages == {"prepare", "preparing", "launch", "running", "ended", "review", "approved",
           "promote", "completed", "stuck"}

Typed == /\ rows \in WorkspaceRows
         /\ trees \in [Attempts -> CandidateTrees]
         /\ project \in [Files -> FileContents]
         /\ authority \in Authorities
         /\ authority.attempt # Nobody => authority.row # Nobody
         /\ evidence \in Evidences
         /\ stage \in Stages
         /\ attempt \in Attempts
         /\ entering \subseteq Launching
         /\ inside \subseteq Launching
         /\ patch \in Patches
         /\ patch.at # "idle" => patch.row # Nobody
         /\ lateEdits \subseteq Files
         /\ unfrozen \in BOOLEAN

LEMMA WorkspaceRowEdits ==
    ASSUME NEW rs \in WorkspaceRows, NEW w \in Attempts
    PROVE  /\ \A to \in Statuses : [rs EXCEPT ![w].status = to] \in WorkspaceRows
           /\ \A to \in Statuses, a \in Attempts :
                 [rs EXCEPT ![w].status = to, ![w].attempt = a, ![w].consumed = FALSE,
                            ![w].expired = FALSE] \in WorkspaceRows
           /\ [rs EXCEPT ![w].status = "running", ![w].consumed = TRUE] \in WorkspaceRows
           /\ [rs EXCEPT ![w].expired = TRUE] \in WorkspaceRows
           /\ [rs EXCEPT ![w].status = "abandoned", ![w].retained = "running"] \in WorkspaceRows
           /\ [rs EXCEPT ![w].retained = "over"] \in WorkspaceRows
<1>1. \A to \in Statuses : [rs EXCEPT ![w].status = to] \in WorkspaceRows
  BY Zenon DEF WorkspaceRows
<1>2. \A to \in Statuses, a \in Attempts :
         [rs EXCEPT ![w].status = to, ![w].attempt = a, ![w].consumed = FALSE,
                    ![w].expired = FALSE] \in WorkspaceRows
  <2> TAKE to \in Statuses, a \in Attempts
  <2>1. [rs EXCEPT ![w].status = to] \in WorkspaceRows
    BY Zenon DEF WorkspaceRows
  <2>2. \A qs \in WorkspaceRows : [qs EXCEPT ![w].attempt = a] \in WorkspaceRows
    BY Zenon DEF WorkspaceRows, RowOwner
  <2>3. \A qs \in WorkspaceRows : [qs EXCEPT ![w].consumed = FALSE, ![w].expired = FALSE] \in WorkspaceRows
    BY DEF WorkspaceRows
  <2> QED BY <2>1, <2>2, <2>3
<1>3. [rs EXCEPT ![w].status = "running", ![w].consumed = TRUE] \in WorkspaceRows
  BY DEF WorkspaceRows, Statuses
<1>4. [rs EXCEPT ![w].expired = TRUE] \in WorkspaceRows
  BY DEF WorkspaceRows
<1>5. [rs EXCEPT ![w].status = "abandoned", ![w].retained = "running"] \in WorkspaceRows
  BY DEF WorkspaceRows, Statuses
<1>6. [rs EXCEPT ![w].retained = "over"] \in WorkspaceRows
  BY DEF WorkspaceRows
<1> QED BY <1>1, <1>2, <1>3, <1>4, <1>5, <1>6

LEMMA RowFields ==
    ASSUME NEW rs \in WorkspaceRows, NEW w \in Attempts
    PROVE  /\ rs[w].status \in Statuses
           /\ rs[w].attempt \in RowOwner
           /\ rs[w].retained \in {"unset", "running", "over"}
BY DEF WorkspaceRows

LEMMA Initials ==
    /\ SourceTree \in CandidateTrees
    /\ SourceTree \in [Files -> FileContents]
    /\ NoRow \in [status : Statuses, attempt : RowOwner, consumed : BOOLEAN, expired : BOOLEAN,
                  retained : {"unset", "running", "over"}]
    /\ NoPatch \in Patches
    /\ NoAuthority \in Authorities
    /\ NoEvidence \in Evidences
    /\ Attempts \subseteq RowOwner
    /\ TreeContents \subseteq FileContents
    /\ 1 \in Attempts
    /\ \A a \in Attempts : a # Nobody
BY WorkspaceAssumption DEF SourceTree, CandidateTrees, TreeContents, FileContents, NoRow, NoPatch,
   NoAuthority, NoEvidence, Patches, PatchStages, Authorities, Evidences, RowOwner, Statuses,
   Attempts, Nobody

LEMMA PatchEdits ==
    ASSUME NEW p \in Patches, NEW at \in PatchStages
    PROVE  /\ [p EXCEPT !.at = at] \in Patches
           /\ \A w \in RowOwner : [p EXCEPT !.row = w, !.at = at] \in Patches
           /\ \A fs \in SUBSET Files : [p EXCEPT !.todo = fs, !.at = at] \in Patches
           /\ \A f \in Files : [p EXCEPT !.todo = @ \ {f}, !.done = @ \cup {f}] \in Patches
BY DEF Patches

LEMMA PatchFields ==
    ASSUME NEW p \in Patches
    PROVE  p.row \in RowOwner /\ p.todo \subseteq Files /\ p.done \subseteq Files /\ p.at \in PatchStages
BY DEF Patches

LEMMA ProjectEdits ==
    ASSUME NEW pr \in [Files -> FileContents]
    PROVE  /\ \A f \in Files, c \in FileContents : [pr EXCEPT ![f] = c] \in [Files -> FileContents]
           /\ \A back \in SUBSET Files :
                 [f \in Files |-> IF f \in back THEN Source ELSE pr[f]] \in [Files -> FileContents]
BY DEF FileContents

LEMMA TreeFields ==
    ASSUME Typed
    PROVE  /\ \A w \in Attempts : trees[w] \in CandidateTrees
           /\ \A f \in Files : evidence.tree[f] \in TreeContents
           /\ authority.row \in RowOwner /\ authority.attempt \in RowOwner
           /\ evidence.row \in RowOwner /\ evidence.attempt \in RowOwner
BY DEF Typed, Evidences, Authorities, CandidateTrees

\* A row that is in some status other than none is that of an attempt.
LEMMA AuthorityRow ==
    ASSUME Typed, authority.row # Nobody
    PROVE  authority.row \in Attempts
BY TreeFields DEF RowOwner

LEMMA PatchRow ==
    ASSUME Typed, patch.at # "idle"
    PROVE  patch.row \in Attempts
BY PatchFields DEF Typed, RowOwner

LEMMA WorkspaceTypedStep == Typed /\ WorkspaceNext => Typed'
<1> SUFFICES ASSUME Typed, WorkspaceNext PROVE Typed'
  OBVIOUS
<1> USE Initials DEF Typed, memory, history, Stages
<1>1. CASE Reissue
  <2>1. PICK w \in Attempts : /\ rows' = [rows EXCEPT ![w].status = "ready", ![w].attempt = attempt,
                                     ![w].consumed = FALSE, ![w].expired = FALSE]
                              /\ authority' = [row |-> w, attempt |-> attempt]
    BY <1>1 DEF Reissue
  <2>2. rows' \in WorkspaceRows
    BY <2>1, WorkspaceRowEdits DEF Statuses
  <2>3. authority' \in Authorities /\ authority'.row # Nobody
    BY <2>1 DEF Authorities
  <2> QED BY <1>1, <2>2, <2>3 DEF Reissue
<1>2. CASE CreateRow
  <2>1. [NoRow EXCEPT !.status = "preparing", !.attempt = attempt]
           \in [status : Statuses, attempt : RowOwner, consumed : BOOLEAN, expired : BOOLEAN,
                retained : {"unset", "running", "over"}]
    BY DEF NoRow, Statuses
  <2>2. rows' \in WorkspaceRows
    BY <1>2, <2>1 DEF CreateRow, WorkspaceRows
  <2> QED BY <1>2, <2>2 DEF CreateRow
<1>3. CASE Materialize
  <2>1. rows' \in WorkspaceRows
    BY <1>3, WorkspaceRowEdits DEF Materialize, Transition, Statuses
  <2>2. trees' \in [Attempts -> CandidateTrees]
    BY <1>3 DEF Materialize
  <2>3. authority' \in Authorities /\ authority'.row # Nobody
    BY <1>3 DEF Materialize, Authorities
  <2> QED BY <1>3, <2>1, <2>2, <2>3 DEF Materialize
<1>4. CASE MaterializeFails
  <2>1. rows' \in WorkspaceRows
    BY <1>4, WorkspaceRowEdits DEF MaterializeFails, Transition, Statuses
  <2> QED BY <1>4, <2>1 DEF MaterializeFails, Stuck
<1>5. CASE PrepareLaunch
  <2>1. authority.row \in Attempts
    BY <1>5 DEF PrepareLaunch, Authorizes
  <2>2. [attempt |-> attempt, row |-> authority.row] \in Launching
    BY <2>1 DEF Launching
  <2> QED BY <1>5, <2>2 DEF PrepareLaunch
<1>6. CASE LaunchRefusedAtPeek
  BY <1>6 DEF LaunchRefusedAtPeek, Stuck
<1>7. ASSUME NEW l \in entering, AuthorizeLaunch(l) PROVE Typed'
  <2>1. l.row \in Attempts
    BY <1>7 DEF AuthorizeLaunch, Authorizes
  <2>2. rows' \in WorkspaceRows
    BY <1>7, <2>1, WorkspaceRowEdits DEF AuthorizeLaunch
  <2> QED BY <1>7, <2>2 DEF AuthorizeLaunch
<1>8. ASSUME NEW l \in entering, ConsumeRefused(l) PROVE Typed'
  BY <1>8 DEF ConsumeRefused
<1>9. ASSUME NEW l \in inside, AgentEnds(l) PROVE Typed'
  BY <1>9 DEF AgentEnds
<1>10. ASSUME NEW l \in inside, NEW f \in Files, AgentWrites(l, f) PROVE Typed'
  <2>1. l.row \in Attempts /\ l.attempt \in TreeContents
    BY DEF Launching, TreeContents
  <2>2. trees' \in [Attempts -> CandidateTrees]
    BY <1>10, <2>1 DEF AgentWrites, CandidateTrees
  <2> QED BY <1>10, <2>2 DEF AgentWrites
<1>11. CASE NextAttempt
  <2>1. attempt + 1 \in Attempts
    BY <1>11, WorkspaceAssumption DEF NextAttempt, Attempts
  <2> QED BY <1>11, <2>1 DEF NextAttempt
<1>12. CASE Finalize
  <2>1. authority.row \in Attempts
    BY <1>12, AuthorityRow DEF Finalize
  <2>2. evidence' \in Evidences
    BY <1>12, <2>1, TreeFields DEF Finalize, Evidences
  <2> DEFINE to == IF rows[authority.row].status \in {"running", "candidate_ready"}
                   THEN "under_review" ELSE rows[authority.row].status
  <2>3. to \in Statuses
    BY <2>1, RowFields DEF Statuses
  <2>4. rows' = [rows EXCEPT ![authority.row].status = to]
    BY <1>12 DEF Finalize
  <2>5. rows' \in WorkspaceRows
    BY <2>1, <2>3, <2>4, WorkspaceRowEdits
  <2> QED BY <1>12, <2>2, <2>5 DEF Finalize
<1>13. CASE FinalizeFails
  BY <1>13 DEF FinalizeFails, Stuck
<1>14. CASE FinalizeLost
  BY <1>14 DEF FinalizeLost
<1>15. CASE ReviewFails
  BY <1>15 DEF ReviewFails, Stuck
<1>16. CASE Approve
  BY <1>16 DEF Approve
<1>17. CASE RequestRework
  <2>1. attempt + 1 \in Attempts
    BY <1>17, WorkspaceAssumption DEF RequestRework, Attempts
  <2> QED BY <1>17, <2>1 DEF RequestRework
<1>18. CASE PromotionBlocked
  <2>1. rows' \in WorkspaceRows
    BY <1>18, AuthorityRow, WorkspaceRowEdits DEF PromotionBlocked, Statuses
  <2> QED BY <1>18, <2>1 DEF PromotionBlocked
<1>19. CASE Validating
  <2>1. authority.row \in Attempts
    BY <1>19, AuthorityRow DEF Validating, Promotable
  <2>2. rows' \in WorkspaceRows
    BY <1>19, <2>1, WorkspaceRowEdits DEF Validating, Statuses
  <2>3. patch' \in Patches
    BY <1>19, <2>1, PatchEdits DEF Validating, PatchStages
  <2>4. patch'.row # Nobody
    BY <1>19, <2>1 DEF Validating, NoPatch
  <2> QED BY <1>19, <2>2, <2>3, <2>4 DEF Validating
<1>20. CASE BeginPatch
  <2>1. patch.row \in Attempts
    BY <1>20, PatchRow DEF BeginPatch, Transition
  <2>2. rows' \in WorkspaceRows
    BY <1>20, <2>1, WorkspaceRowEdits DEF BeginPatch, Transition, Statuses
  <2>3. patch' \in Patches
    BY <1>20, PatchEdits DEF BeginPatch, PatchStages
  <2>4. patch'.row # Nobody
    BY <1>20, <2>1 DEF BeginPatch, Patches
  <2> QED BY <1>20, <2>2, <2>3, <2>4 DEF BeginPatch
<1>21. CASE Stage
  <2>1. patch' \in Patches
    BY <1>21, PatchEdits DEF Stage, PatchStages, CandidateChanges
  <2>2. patch'.row # Nobody
    BY <1>21, PatchRow DEF Stage, Patches
  <2> QED BY <1>21, <2>1, <2>2 DEF Stage
<1>22. CASE StageFails
  <2>1. rows' \in WorkspaceRows
    BY <1>22, PatchRow, WorkspaceRowEdits DEF StageFails, PromotionFails, Transition, Statuses
  <2>2. patch'.at = "idle"
    BY <1>22 DEF StageFails, PromotionFails, NoPatch
  <2> QED BY <1>22, <2>1, <2>2 DEF StageFails, PromotionFails
<1>23. ASSUME NEW f \in Files, CommitFile(f) PROVE Typed'
  <2>1. project' \in [Files -> FileContents]
    BY <1>23, ProjectEdits, TreeFields DEF CommitFile, FileContents, TreeContents
  <2>2. patch' \in Patches
    BY <1>23, PatchEdits DEF CommitFile, PatchStages
  <2>3. patch'.row # Nobody
    BY <1>23, PatchRow DEF CommitFile, Patches
  <2> QED BY <1>23, <2>1, <2>2, <2>3 DEF CommitFile
<1>24. ASSUME NEW f \in Files, UserEdits(f) PROVE Typed'
  <2>1. project' \in [Files -> FileContents]
    BY <1>24, ProjectEdits DEF UserEdits, FileContents
  <2> QED BY <1>24, <2>1 DEF UserEdits
<1>25. CASE CommitFails
  <2>1. rows' \in WorkspaceRows
    BY <1>25, PatchRow, WorkspaceRowEdits DEF CommitFails, PromotionFails, Transition, Statuses
  <2>2. project' \in [Files -> FileContents]
    BY <1>25, ProjectEdits, PatchFields DEF CommitFails
  <2>3. patch'.at = "idle"
    BY <1>25 DEF CommitFails, PromotionFails, NoPatch
  <2> QED BY <1>25, <2>1, <2>2, <2>3 DEF CommitFails, PromotionFails
<1>26. CASE Promoted
  <2>1. rows' \in WorkspaceRows
    BY <1>26, PatchRow, WorkspaceRowEdits DEF Promoted, PromotionFails, Transition, Statuses, Committed
  <2>2. patch'.at = "idle"
    BY <1>26 DEF Promoted, PromotionFails, NoPatch
  <2> QED BY <1>26, <2>1, <2>2 DEF Promoted, PromotionFails
<1>27. CASE VerifyFails
  <2>1. rows' \in WorkspaceRows
    BY <1>27, PatchRow, WorkspaceRowEdits
       DEF VerifyFails, PromotionFails, Transition, Statuses, Committed
  <2>2. project' \in [Files -> FileContents]
    BY <1>27, ProjectEdits, PatchFields DEF VerifyFails
  <2>3. patch'.at = "idle"
    BY <1>27 DEF VerifyFails, PromotionFails, NoPatch
  <2> QED BY <1>27, <2>1, <2>2, <2>3 DEF VerifyFails, PromotionFails
<1>28. ASSUME NEW w \in Attempts, Expires(w) PROVE Typed'
  BY <1>28, WorkspaceRowEdits DEF Expires
<1>29. ASSUME NEW w \in Attempts, AbandonWorkspace(w) PROVE Typed'
  BY <1>29, WorkspaceRowEdits DEF AbandonWorkspace
<1>30. ASSUME NEW w \in Attempts, RetentionEnds(w) PROVE Typed'
  BY <1>30, WorkspaceRowEdits DEF RetentionEnds
<1>31. CASE Housekeep
  <2>1. rows' \in WorkspaceRows
    BY <1>31 DEF Housekeep, WorkspaceRows
  <2> QED BY <1>31, <2>1 DEF Housekeep
<1>32. CASE CrashWorkspace
  <2>1. authority'.attempt = Nobody /\ patch'.at = "idle"
    BY <1>32 DEF CrashWorkspace, NoAuthority, NoPatch
  <2> QED BY <1>32, <2>1 DEF CrashWorkspace
<1> QED BY <1>1, <1>2, <1>3, <1>4, <1>5, <1>6, <1>7, <1>8, <1>9, <1>10,
            <1>11, <1>12, <1>13, <1>14, <1>15, <1>16, <1>17, <1>18, <1>19, <1>20,
            <1>21, <1>22, <1>23, <1>24, <1>25, <1>26, <1>27, <1>28, <1>29, <1>30,
            <1>31, <1>32
     DEF WorkspaceNext

-----------------------------------------------------------------------------
(* The inductive invariant.                                                     *)

Workable == {"ready", "running", "candidate_ready", "under_review", "approved", "validating"}
InWork(w) == rows[w].status \in Workable
Open(w) == rows[w].status \in Workable \cup {"recovery_required"}

\* A row is made only when no other can be taken up again, so there is one at most
\* that promote could find untouched when it begins to write.
OneCandidate ==
    /\ \A v, w \in Attempts : Open(v) /\ Open(w) => v = w
    /\ \A w \in Attempts : rows[w].status = "validating" => stage \in {"promote", "completed"}
    /\ stage = "preparing" => \A w \in Attempts : ~Open(w)
    /\ patch.at \in {"stage", "commit", "applied"} => \A w \in Attempts : ~Open(w)

\* A patch under way is the task's promotion; only its commit phase writes.
WritesInCommit ==
    /\ patch.at # "idle" <=> stage = "promote"
    /\ (\E f \in Files : project[f] \in Attempts \cup {Skewed})
          => /\ stage = "completed" \/ patch.at = "commit"
             /\ \A w \in Attempts : ~InWork(w)

\* Of the files a commit has staged, the user has edited none but the late ones.
StagedAreUnedited ==
    /\ patch.at # "commit" => patch.todo = {} /\ patch.done = {}
    /\ \A f \in (patch.todo \cup patch.done) \ lateEdits : project[f] # Edited

\* Only a review can be reached without evidence: after a crash.
EvidenceIsCurrent ==
    /\ stage = "review" /\ evidence # NoEvidence => evidence.attempt = attempt \/ unfrozen
    /\ stage \in {"approved", "promote"} => evidence.attempt = attempt \/ unfrozen

WorkspaceInv == OneCandidate /\ WritesInCommit /\ StagedAreUnedited /\ EvidenceIsCurrent

LEMMA WorkspaceStep == Typed /\ WorkspaceInv /\ WorkspaceNext => WorkspaceInv'
<1> SUFFICES ASSUME Typed, WorkspaceInv, WorkspaceNext PROVE WorkspaceInv'
  OBVIOUS
<1> USE Initials DEF Typed, memory, history, WorkspaceInv, OneCandidate, WritesInCommit, StagedAreUnedited,
        EvidenceIsCurrent, InWork, Open, Workable, WorkspaceRows, Patches, PatchStages, Stages
<1>1. CASE Reissue
  BY <1>1 DEF Reissue, ToReuse, Reusable
<1>2. CASE CreateRow
  BY <1>2 DEF CreateRow, NoRow, Reusable
<1>3. CASE Materialize
  BY <1>3 DEF Materialize, Transition
<1>4. CASE MaterializeFails
  BY <1>4 DEF MaterializeFails, Transition, Stuck
<1>5. CASE PrepareLaunch
  BY <1>5 DEF PrepareLaunch, Authorizes
<1>6. CASE LaunchRefusedAtPeek
  BY <1>6 DEF LaunchRefusedAtPeek, Stuck
<1>7. ASSUME NEW l \in entering, AuthorizeLaunch(l) PROVE WorkspaceInv'
  BY <1>7 DEF AuthorizeLaunch, Authorizes
<1>8. ASSUME NEW l \in entering, ConsumeRefused(l) PROVE WorkspaceInv'
  BY <1>8 DEF ConsumeRefused
<1>9. ASSUME NEW l \in inside, AgentEnds(l) PROVE WorkspaceInv'
  BY <1>9 DEF AgentEnds
<1>10. ASSUME NEW l \in inside, NEW f \in Files, AgentWrites(l, f) PROVE WorkspaceInv'
  BY <1>10 DEF AgentWrites
<1>11. CASE NextAttempt
  BY <1>11 DEF NextAttempt
<1>12. CASE Finalize
  BY <1>12 DEF Finalize
<1>13. CASE FinalizeFails
  BY <1>13 DEF FinalizeFails, Stuck
<1>14. CASE FinalizeLost
  BY <1>14 DEF FinalizeLost
<1>15. CASE ReviewFails
  BY <1>15 DEF ReviewFails, Stuck
<1>16. CASE Approve
  BY <1>16 DEF Approve
<1>17. CASE RequestRework
  BY <1>17 DEF RequestRework
<1>18. CASE PromotionBlocked
  BY <1>18 DEF PromotionBlocked, CanApprove
<1>19. CASE Validating
  BY <1>19 DEF Validating, Promotable, CanApprove, NoPatch
<1>20. CASE BeginPatch
  <2>1. patch.row \in Attempts /\ rows[patch.row].status = "validating" /\ stage = "promote"
    BY <1>20, PatchRow DEF BeginPatch, Transition
  <2>2. \A w \in Attempts : rows'[w].status = IF w = patch.row THEN "promoting" ELSE rows[w].status
    BY <1>20 DEF BeginPatch, Transition
  <2>3. patch'.at \in {"stage", "applied"} /\ patch'.todo = {} /\ patch'.done = {}
    BY <1>20 DEF BeginPatch
  <2>4. ~\E f \in Files : project[f] \in Attempts \cup {Skewed}
    BY <1>20, <2>1 DEF BeginPatch
  <2>5. OneCandidate'
    BY <1>20, <2>1, <2>2 DEF BeginPatch
  <2>6. WritesInCommit'
    BY <1>20, <2>1, <2>2, <2>3, <2>4 DEF BeginPatch
  <2>7. StagedAreUnedited' /\ EvidenceIsCurrent'
    BY <1>20, <2>3 DEF BeginPatch
  <2> QED BY <2>5, <2>6, <2>7
<1>21. CASE Stage
  <2>1. /\ patch'.at = "commit" /\ patch'.todo = CandidateChanges /\ patch'.done = {}
        /\ patch.at = "stage" /\ UNCHANGED <<rows, stage, project>>
    BY <1>21 DEF Stage
  <2>2. \A f \in CandidateChanges : project[f] # Edited
    BY <1>21 DEF Stage, Rechecked, Source, Edited
  <2>3. StagedAreUnedited'
    BY <2>1, <2>2
  <2> QED BY <1>21, <2>1, <2>3 DEF Stage
<1>22. CASE StageFails
  BY <1>22 DEF StageFails, PromotionFails, Transition, NoPatch
<1>23. ASSUME NEW f \in Files, CommitFile(f) PROVE WorkspaceInv'
  <2>1. PICK c \in {evidence.tree[f], Skewed} : project' = [project EXCEPT ![f] = c]
    BY <1>23 DEF CommitFile
  <2>2. c # Edited
    BY TreeFields DEF TreeContents, Edited, Skewed, Source, Attempts
  <2>3. /\ patch.at = "commit" /\ f \in patch.todo /\ patch'.at = "commit"
        /\ patch'.todo = patch.todo \ {f} /\ patch'.done = patch.done \cup {f}
        /\ UNCHANGED <<rows, stage, lateEdits>>
    BY <1>23 DEF CommitFile
  <2>4. StagedAreUnedited'
    BY <2>1, <2>2, <2>3
  <2>5. OneCandidate' /\ WritesInCommit'
    BY <2>3
  <2> QED BY <1>23, <2>4, <2>5 DEF CommitFile
<1>24. ASSUME NEW f \in Files, UserEdits(f) PROVE WorkspaceInv'
  <2>1. Edited \notin Attempts \cup {Skewed}
    BY DEF Edited, Skewed, Attempts
  <2>2. /\ project' = [project EXCEPT ![f] = Edited] /\ UNCHANGED <<rows, stage, patch>>
        /\ lateEdits' = IF patch.at = "commit" THEN lateEdits \cup {f} ELSE lateEdits
    BY <1>24 DEF UserEdits
  <2>3. StagedAreUnedited'
    BY <2>2
  <2>4. OneCandidate' /\ WritesInCommit'
    BY <2>1, <2>2
  <2> QED BY <1>24, <2>3, <2>4 DEF UserEdits
<1>25. CASE CommitFails
  BY <1>25 DEF CommitFails, PromotionFails, Transition, NoPatch
<1>26. CASE Promoted
  BY <1>26 DEF Promoted, Transition, Committed, NoPatch
<1>27. CASE VerifyFails
  BY <1>27 DEF VerifyFails, PromotionFails, Transition, Committed, NoPatch
<1>28. ASSUME NEW w \in Attempts, Expires(w) PROVE WorkspaceInv'
  BY <1>28 DEF Expires
<1>29. ASSUME NEW w \in Attempts, AbandonWorkspace(w) PROVE WorkspaceInv'
  BY <1>29 DEF AbandonWorkspace
<1>30. ASSUME NEW w \in Attempts, RetentionEnds(w) PROVE WorkspaceInv'
  BY <1>30 DEF RetentionEnds
<1>31. CASE Housekeep
  BY <1>31 DEF Housekeep, NoRow
<1>32. CASE CrashWorkspace
  BY <1>32 DEF CrashWorkspace, NoAuthority, NoEvidence, NoPatch
<1> QED BY <1>1, <1>2, <1>3, <1>4, <1>5, <1>6, <1>7, <1>8, <1>9, <1>10,
            <1>11, <1>12, <1>13, <1>14, <1>15, <1>16, <1>17, <1>18, <1>19, <1>20,
            <1>21, <1>22, <1>23, <1>24, <1>25, <1>26, <1>27, <1>28, <1>29, <1>30,
            <1>31, <1>32
     DEF WorkspaceNext

-----------------------------------------------------------------------------
(* What a step may not do.                                                      *)

EditKept == \A f \in Files \ lateEdits : project[f] = Edited => project'[f] = Edited
NoStalePromotion ==
    \A w \in Attempts : rows[w].status = "promoting" /\ rows'[w].status = "promoted"
                            => evidence.attempt = attempt \/ unfrozen

LEMMA EditStep == Typed /\ WorkspaceInv /\ WorkspaceNext => EditKept
<1> SUFFICES ASSUME Typed, WorkspaceInv, WorkspaceNext PROVE EditKept
  OBVIOUS
<1> USE DEF Typed, WorkspaceInv, StagedAreUnedited, EditKept
<1>1. CASE UNCHANGED project
  BY <1>1
<1>2. ASSUME NEW f \in Files, CommitFile(f) PROVE EditKept
  <2>1. \A q \in Files \ {f} : project'[q] = project[q]
    BY <1>2 DEF CommitFile
  <2>2. f \notin lateEdits => project[f] # Edited
    BY <1>2 DEF CommitFile
  <2> QED BY <2>1, <2>2
<1>3. ASSUME NEW f \in Files, UserEdits(f) PROVE EditKept
  <2>1. \A q \in Files : project'[q] = IF q = f THEN Edited ELSE project[q]
    BY <1>3 DEF UserEdits
  <2> QED BY <2>1
<1>4. CASE CommitFails
  <2>1. PICK back \in SUBSET patch.done :
           project' = [f \in Files |-> IF f \in back THEN Source ELSE project[f]]
    BY <1>4 DEF CommitFails
  <2> QED BY <2>1
<1>5. CASE VerifyFails
  <2>1. PICK back \in SUBSET patch.done :
           project' = [f \in Files |-> IF f \in back THEN Source ELSE project[f]]
    BY <1>5 DEF VerifyFails
  <2> QED BY <2>1
<1> QED BY <1>1, <1>2, <1>3, <1>4, <1>5
     DEF WorkspaceNext, Reissue, CreateRow, Materialize, MaterializeFails, PrepareLaunch,
         LaunchRefusedAtPeek, AuthorizeLaunch, ConsumeRefused, AgentEnds, AgentWrites, NextAttempt,
         Finalize, FinalizeFails, FinalizeLost, ReviewFails, Approve, RequestRework,
         PromotionBlocked, Validating, BeginPatch, Stage, StageFails, Promoted, Expires,
         AbandonWorkspace, RetentionEnds, Housekeep, CrashWorkspace

LEMMA PromotionStep == Typed /\ WorkspaceInv /\ WorkspaceNext => NoStalePromotion
<1> SUFFICES ASSUME Typed, WorkspaceInv, WorkspaceNext PROVE NoStalePromotion
  OBVIOUS
<1> USE DEF Typed, WorkspaceRows, memory, history, NoStalePromotion
<1>1. CASE patch.at # "idle"
  BY <1>1 DEF WorkspaceInv, WritesInCommit, EvidenceIsCurrent
<1>2. CASE patch.at = "idle"
  <2>1. CASE UNCHANGED rows
    BY <2>1
  <2>2. CASE Reissue
    BY <1>2, <2>2 DEF Reissue, ToReuse, Reusable
  <2>3. CASE CreateRow
    BY <1>2, <2>3 DEF CreateRow, NoRow
  <2>4. CASE Materialize
    BY <1>2, <2>4 DEF Materialize, Transition
  <2>5. CASE MaterializeFails
    BY <1>2, <2>5 DEF MaterializeFails, Transition, Stuck
  <2>6. ASSUME NEW l \in entering, AuthorizeLaunch(l) PROVE NoStalePromotion
    BY <1>2, <2>6 DEF AuthorizeLaunch, Authorizes
  <2>7. CASE Finalize
    BY <1>2, <2>7 DEF Finalize
  <2>8. CASE PromotionBlocked
    BY <1>2, <2>8 DEF PromotionBlocked, CanApprove
  <2>9. CASE Validating
    BY <1>2, <2>9 DEF Validating, Promotable, CanApprove
  <2>10. CASE BeginPatch
    BY <1>2, <2>10 DEF BeginPatch, Transition
  <2>11. CASE StageFails
    BY <1>2, <2>11 DEF StageFails, PromotionFails, Transition
  <2>12. CASE CommitFails
    BY <1>2, <2>12 DEF CommitFails, PromotionFails, Transition
  <2>13. CASE VerifyFails
    BY <1>2, <2>13 DEF VerifyFails, PromotionFails, Transition, Committed
  <2>14. ASSUME NEW w \in Attempts, Expires(w) PROVE NoStalePromotion
    BY <1>2, <2>14 DEF Expires
  <2>15. ASSUME NEW w \in Attempts, AbandonWorkspace(w) PROVE NoStalePromotion
    BY <1>2, <2>15 DEF AbandonWorkspace
  <2>16. ASSUME NEW w \in Attempts, RetentionEnds(w) PROVE NoStalePromotion
    BY <1>2, <2>16 DEF RetentionEnds
  <2>17. CASE Housekeep
    BY <1>2, <2>17 DEF Housekeep, NoRow
  <2>18. CASE Promoted
    BY <1>2, <2>18 DEF Promoted, Committed
  <2> QED BY <2>1, <2>2, <2>3, <2>4, <2>5, <2>6, <2>7, <2>8, <2>9, <2>10,
              <2>11, <2>12, <2>13, <2>14, <2>15, <2>16, <2>17, <2>18
       DEF WorkspaceNext, PrepareLaunch, LaunchRefusedAtPeek, ConsumeRefused, AgentEnds,
           AgentWrites, NextAttempt, FinalizeFails, FinalizeLost, ReviewFails, Approve,
           RequestRework, Stage, CommitFile, UserEdits, CrashWorkspace
<1> QED BY <1>1, <1>2

-----------------------------------------------------------------------------
(* The theorems about the candidate.                                            *)

LEMMA WorkspaceInitially == WorkspaceInit => Typed /\ WorkspaceInv
<1> SUFFICES ASSUME WorkspaceInit PROVE Typed /\ WorkspaceInv
  OBVIOUS
<1>1. Typed
  BY Initials DEF WorkspaceInit, Typed, WorkspaceRows, Stages, NoPatch, NoAuthority
<1>2. WorkspaceInv
  BY WorkspaceAssumption DEF WorkspaceInit, WorkspaceInv, OneCandidate, WritesInCommit,
     StagedAreUnedited, EvidenceIsCurrent, InWork, Open, Workable, NoRow, NoPatch, SourceTree,
     Source, Skewed, Edited, Attempts
<1> QED BY <1>1, <1>2

LEMMA WorkspaceSafetyStep ==
    Typed /\ WorkspaceInv /\ [WorkspaceNext]_wsVars
        => (Typed /\ WorkspaceInv)' /\ [EditKept /\ NoStalePromotion]_wsVars
<1>1. CASE WorkspaceNext
  BY <1>1, WorkspaceTypedStep, WorkspaceStep, EditStep, PromotionStep
<1>2. CASE UNCHANGED wsVars
  BY <1>2 DEF wsVars, Typed, WorkspaceInv, OneCandidate, WritesInCommit, StagedAreUnedited,
     EvidenceIsCurrent, InWork, Open
<1> QED BY <1>1, <1>2

\* The inductive invariant: the types, one row at most that can be worked on, writes
\* only by the commit of that row's promotion, no staged file edited before it was
\* staged, and evidence that is of the current attempt once it is approved.
THEOREM WorkspaceSafety == WorkspaceSpec => [](Typed /\ WorkspaceInv)
BY WorkspaceInitially, WorkspaceSafetyStep, PTL DEF WorkspaceSpec

LEMMA WorkspaceTypes == Typed => WorkspaceTypeOK
<1> SUFFICES ASSUME Typed PROVE WorkspaceTypeOK
  OBVIOUS
<1>1. \A w \in Attempts : rows[w].status \in Statuses /\ rows[w].attempt \in {Nobody} \cup Attempts
  BY RowFields DEF Typed, RowOwner
<1>2. trees \in [Attempts -> [Files -> FileContents]]
  BY Initials DEF Typed, CandidateTrees
<1>3. patch.todo \cup patch.done \cup lateEdits \subseteq Files
  BY PatchFields DEF Typed
<1> QED BY <1>1, <1>2, <1>3 DEF Typed, Stages, Authorities, RowOwner, Launching, WorkspaceTypeOK

\* Rows, trees, authorisations and the patch keep their types.
THEOREM WorkspaceTyping == WorkspaceSpec => []WorkspaceTypeOK
BY WorkspaceTypes, WorkspaceSafety, PTL

\* However attempts, crashes and failed promotions interleave: when anything of a
\* candidate is in the project, no row is left that could be worked on or validated.
THEOREM NoWorkAfterPromotion == WorkspaceSpec => []NoWorkOnAPromotedProject
<1>1. WorkspaceInv => NoWorkOnAPromotedProject
  BY DEF WorkspaceInv, WritesInCommit, InWork, Workable, NoWorkOnAPromotedProject
<1> QED BY <1>1, WorkspaceSafety, PTL

\* No promotion, roll-back or clean-up overwrites a file the user edited before the
\* promotion's last comparison.
THEOREM EditsSurvive == WorkspaceSpec => EditsSurvivePromotion
BY WorkspaceInitially, WorkspaceSafetyStep, PTL
   DEF WorkspaceSpec, EditsSurvivePromotion, EditKept

\* The evidence a promotion is made of was frozen after the task's last attempt, but
\* for an attempt that a pause took to the review.
THEOREM PromotionIsCurrent == WorkspaceSpec => PromotedCandidateIsCurrent
BY WorkspaceInitially, WorkspaceSafetyStep, PTL
   DEF WorkspaceSpec, PromotedCandidateIsCurrent, NoStalePromotion
-----------------------------------------------------------------------------
(* The promise (ProjectWrites).  A task that has promoted is completed for good,  *)
(* and what a patch has written and has still to write is its whole candidate.    *)

IsPromoted(w) == rows[w].status = "promoted"

PromiseInv ==
    /\ (\E w \in Attempts : IsPromoted(w)) => stage = "completed"
    /\ patch.at = "commit" => patch.todo \cup patch.done = CandidateChanges
    /\ patch.at = "applied" => CandidateChanges = {}

promiseVars == <<project, Phase, WrittenTree, patch.todo, patch.done>>

\* What writes nothing, promotes nothing and completes nothing is no step of the promise.
LEMMA QuietStep ==
    ASSUME Typed, WorkspaceInv, PromiseInv,
           \A w \in Attempts : IsPromoted(w)' <=> IsPromoted(w),
           stage' = "completed" <=> stage = "completed",
           UNCHANGED project,
           \/ UNCHANGED patch
           \/ /\ ~WritesProject /\ ~WritesProject'
              /\ patch'.todo = {} /\ patch'.done = {},
           WritesProject => UNCHANGED evidence
    PROVE  PromiseInv' /\ UNCHANGED promiseVars
<1>1. /\ WritesProject' <=> WritesProject
      /\ patch'.todo = patch.todo /\ patch'.done = patch.done
      /\ WritesProject => patch' = patch
  BY DEF WorkspaceInv, StagedAreUnedited, WritesProject
<1>2. WrittenTree' = WrittenTree
  BY <1>1 DEF WrittenTree
<1>3. Phase' = Phase
  BY <1>1 DEF Phase, IsPromoted
<1>4. PromiseInv'
  BY <1>1 DEF PromiseInv, WritesProject, CandidateChanges
<1> QED BY <1>1, <1>2, <1>3, <1>4 DEF promiseVars

\* The promotion begins to write: at once if there is nothing to be written.
LEMMA BeginKeeps ==
    ASSUME Typed, WorkspaceInv, PromiseInv, patch.at \in {"validating", "stage"},
           patch'.at \in {"commit", "applied"},
           patch'.todo = IF patch'.at = "commit" THEN CandidateChanges ELSE {},
           patch'.done = {}, patch'.at = "applied" => CandidateChanges = {},
           Rechecked, UNCHANGED <<project, evidence, stage>>,
           \A w \in Attempts : IsPromoted(w)' <=> IsPromoted(w)
    PROVE  PromiseInv' /\ Promise!Begin
<1>1. stage = "promote" /\ ~\E w \in Attempts : IsPromoted(w)
  BY DEF WorkspaceInv, WritesInCommit, PromiseInv
<1>2. Phase = "before" /\ Phase' = "writing"
  BY <1>1 DEF Phase, WritesProject, IsPromoted
<1>3. WrittenTree' = evidence.tree /\ WrittenTree' \in [Files -> FileContents]
  BY Initials DEF WrittenTree, WritesProject, Typed, Evidences, CandidateTrees
<1>4. patch'.todo = {f \in Files : WrittenTree'[f] # Source}
  BY <1>3 DEF CandidateChanges
<1>5. \A f \in patch'.todo : project[f] = Source
  BY DEF Rechecked
<1>6. PromiseInv'
  BY <1>1 DEF PromiseInv, CandidateChanges
<1> QED BY <1>2, <1>3, <1>4, <1>5, <1>6 DEF Promise!Begin

\* The task ends without a promotion: of what it has written, some is put back.
LEMMA EndKeeps ==
    ASSUME Typed, WorkspaceInv, PromiseInv,
           stage # "completed", stage' = "completed",
           patch' = NoPatch,
           \A w \in Attempts : ~IsPromoted(w)',
           NEW back \in SUBSET patch.done,
           project' = [f \in Files |-> IF f \in back THEN Source ELSE project[f]]
    PROVE  PromiseInv' /\ (Promise!PutBack \/ Promise!Close)
<1>1. /\ ~\E w \in Attempts : IsPromoted(w)
      /\ ~WritesProject' /\ patch'.todo = {} /\ patch'.done = {} /\ patch'.at = "idle"
  BY DEF PromiseInv, WritesProject, NoPatch
<1>2. Phase' = "over" /\ WrittenTree' = SourceTree
  BY <1>1 DEF Phase, WrittenTree, IsPromoted
<1>3. PromiseInv'
  BY <1>1 DEF PromiseInv
<1>4. CASE WritesProject
  <2>1. Phase = "writing"
    BY <1>4 DEF Phase
  <2>2. Promise!PutBack
    BY <1>1, <1>2, <2>1 DEF Promise!PutBack, Promise!Ends, Promise!Found, SourceTree
  <2> QED BY <1>3, <2>2
<1>5. CASE ~WritesProject
  <2>1. Phase = "before" /\ WrittenTree = SourceTree /\ patch.todo = {} /\ patch.done = {}
    BY <1>1, <1>5 DEF Phase, WrittenTree, IsPromoted, WritesProject, WorkspaceInv, StagedAreUnedited
  <2>2. project' = project
    BY <2>1 DEF Typed
  <2>3. Promise!Close
    BY <1>1, <1>2, <2>1, <2>2 DEF Promise!Close
  <2> QED BY <1>3, <2>3
<1> QED BY <1>4, <1>5

PromisedStep == PromiseInv' /\ (UNCHANGED promiseVars \/ Promise!WritesNext)

LEMMA PromisedSteps ==
    ASSUME Typed, WorkspaceInv, PromiseInv, WorkspaceNext
    PROVE  PromisedStep
<1> USE Initials DEF Typed, memory, history, WorkspaceRows, IsPromoted
<1>0. ~\E w \in Attempts : IsPromoted(w) /\ stage # "completed"
  BY DEF PromiseInv
<1>1. CASE Reissue
  <2>1. /\ stage = "prepare" /\ stage' = "launch" /\ UNCHANGED <<project, patch, evidence>>
    BY <1>1 DEF Reissue
  <2>2. PICK v \in Attempts :
           rows' = [rows EXCEPT ![v].status = "ready", ![v].attempt = attempt,
                                ![v].consumed = FALSE, ![v].expired = FALSE]
    BY Zenon, <1>1 DEF Reissue
  <2>3. \A w \in Attempts : rows'[w].status = IF w = v THEN "ready" ELSE rows[w].status
    BY <2>2
  <2>4. \A w \in Attempts : IsPromoted(w)' <=> IsPromoted(w)
    BY <1>0, <2>1, <2>3
  <2> QED BY <2>1, <2>4, QuietStep DEF PromisedStep
<1>10. CASE CreateRow
  <2>1. /\ stage = "prepare" /\ stage' = "preparing" /\ UNCHANGED <<project, patch, evidence>>
    BY <1>10 DEF CreateRow
  <2>2. \A w \in Attempts : IsPromoted(w)' <=> IsPromoted(w)
    BY <1>0, <1>10, <2>1 DEF CreateRow, NoRow
  <2> QED BY <2>1, <2>2, QuietStep DEF PromisedStep
<1>11. CASE Materialize
  <2>1. /\ stage = "preparing" /\ stage' = "launch" /\ UNCHANGED <<project, patch, evidence>>
    BY <1>11 DEF Materialize
  <2>2. \A w \in Attempts : IsPromoted(w)' <=> IsPromoted(w)
    BY <1>0, <1>11, <2>1 DEF Materialize, Transition
  <2> QED BY <2>1, <2>2, QuietStep DEF PromisedStep
<1>12. CASE MaterializeFails
  <2>1. /\ stage = "preparing" /\ stage' = "stuck" /\ UNCHANGED <<project, patch, evidence>>
    BY <1>12 DEF MaterializeFails, Stuck
  <2>2. \A w \in Attempts : IsPromoted(w)' <=> IsPromoted(w)
    BY <1>0, <1>12, <2>1 DEF MaterializeFails, Transition
  <2> QED BY <2>1, <2>2, QuietStep DEF PromisedStep
<1>2. CASE \/ PrepareLaunch \/ LaunchRefusedAtPeek \/ NextAttempt
           \/ FinalizeFails \/ FinalizeLost \/ ReviewFails \/ Approve \/ RequestRework
  <2>1. UNCHANGED <<rows, project, patch, evidence>> /\ stage # "completed" /\ stage' # "completed"
    BY <1>2 DEF PrepareLaunch, LaunchRefusedAtPeek, NextAttempt, FinalizeFails, FinalizeLost,
       ReviewFails, Approve, RequestRework, Stuck
  <2> QED BY <2>1, QuietStep DEF PromisedStep
<1>3. ASSUME NEW l \in entering, AuthorizeLaunch(l) PROVE PromisedStep
  <2>1. rows[l.row].status = "ready" /\ rows' = [rows EXCEPT ![l.row].status = "running",
                                                             ![l.row].consumed = TRUE]
    BY <1>3 DEF AuthorizeLaunch, Authorizes
  <2>2. \A w \in Attempts : IsPromoted(w)' <=> IsPromoted(w)
    BY <2>1
  <2>3. /\ UNCHANGED <<project, patch, evidence>>
        /\ stage' = "completed" <=> stage = "completed"
    BY <1>3 DEF AuthorizeLaunch
  <2> QED BY <2>2, <2>3, QuietStep DEF PromisedStep
<1>4. ASSUME NEW l \in entering, ConsumeRefused(l) PROVE PromisedStep
  <2>1. UNCHANGED <<rows, project, patch, evidence>> /\ (stage' = "completed" <=> stage = "completed")
    BY <1>4 DEF ConsumeRefused
  <2> QED BY <2>1, QuietStep DEF PromisedStep
<1>5. ASSUME NEW l \in inside, AgentEnds(l) \/ \E f \in Files : AgentWrites(l, f) PROVE PromisedStep
  <2>1. UNCHANGED <<rows, project, patch, evidence>> /\ (stage' = "completed" <=> stage = "completed")
    BY <1>5 DEF AgentEnds, AgentWrites
  <2> QED BY <2>1, QuietStep DEF PromisedStep
<1>6. CASE Finalize
  <2>1. \A w \in Attempts : IsPromoted(w)' <=> IsPromoted(w)
    BY <1>6 DEF Finalize
  <2>2. /\ stage = "ended" /\ stage' = "review" /\ UNCHANGED <<project, patch>> /\ ~WritesProject
    BY <1>6 DEF Finalize, WorkspaceInv, WritesInCommit, WritesProject
  <2> QED BY <2>1, <2>2, QuietStep DEF PromisedStep
<1>7. CASE Validating
  <2>1. stage = "approved" /\ stage' = "promote" /\ UNCHANGED <<project, evidence>>
    BY <1>7 DEF Validating
  <2>2. \A w \in Attempts : IsPromoted(w)' <=> IsPromoted(w)
    BY <1>0, <1>7, <2>1 DEF Validating
  <2>3. /\ ~WritesProject /\ ~WritesProject' /\ patch'.todo = {} /\ patch'.done = {}
    BY <1>7, <2>1 DEF Validating, WorkspaceInv, WritesInCommit, WritesProject, NoPatch
  <2> QED BY <2>1, <2>2, <2>3, QuietStep DEF PromisedStep
<1>8. ASSUME NEW w \in Attempts, Expires(w) \/ AbandonWorkspace(w) \/ RetentionEnds(w)
      PROVE  PromisedStep
  <2>1. UNCHANGED <<project, patch, evidence, stage>>
    BY <1>8 DEF Expires, AbandonWorkspace, RetentionEnds
  <2>2. \A v \in Attempts : IsPromoted(v)' <=> IsPromoted(v)
    <3>1. CASE Expires(w)
      <4>1. rows' = [rows EXCEPT ![w].expired = TRUE]
        BY <3>1 DEF Expires
      <4> QED BY <4>1
    <3>2. CASE AbandonWorkspace(w)
      <4>1. /\ rows' = [rows EXCEPT ![w].status = "abandoned", ![w].retained = "running"]
            /\ rows[w].status # "promoted"
        BY <3>2 DEF AbandonWorkspace
      <4> QED BY <4>1
    <3>3. CASE RetentionEnds(w)
      <4>1. rows' = [rows EXCEPT ![w].retained = "over"]
        BY <3>3 DEF RetentionEnds
      <4> QED BY <4>1
    <3> QED BY <1>8, <3>1, <3>2, <3>3
  <2> QED BY <2>1, <2>2, QuietStep DEF PromisedStep
<1>9. /\ stage # "completed" => \A w \in Attempts : ~IsPromoted(w)
      /\ patch.at # "idle" => stage = "promote" /\ patch.row \in Attempts
      /\ {} \in SUBSET patch.done
      /\ project = [f \in Files |-> IF f \in {} THEN Source ELSE project[f]]
  BY PatchRow DEF PromiseInv, WorkspaceInv, WritesInCommit
<1>13. CASE PromotionBlocked
  <2>1. /\ stage = "approved" /\ stage' = "completed" /\ UNCHANGED <<project, patch, evidence>>
    BY <1>13 DEF PromotionBlocked
  <2>2. patch.at = "idle" /\ ~WritesProject
    BY <1>9, <2>1 DEF WritesProject
  <2>3. \A w \in Attempts : ~IsPromoted(w)'
    BY <1>9, <1>13, <2>1 DEF PromotionBlocked
  <2>4. Phase = "before" /\ Phase' = "over" /\ WrittenTree' = WrittenTree
    BY <1>9, <2>1, <2>2, <2>3 DEF Phase, WrittenTree, WritesProject
  <2>5. PromiseInv' /\ Promise!Close
    BY <2>1, <2>2, <2>3, <2>4 DEF PromiseInv, Promise!Close
  <2> QED BY <2>5 DEF PromisedStep, Promise!WritesNext
<1>14. CASE BeginPatch
  <2>1. /\ patch.at = "validating" /\ patch'.todo = patch.todo /\ patch'.done = patch.done
        /\ patch'.at = IF CandidateChanges = {} THEN "applied" ELSE "stage"
        /\ UNCHANGED <<project, evidence, stage>>
    BY <1>14 DEF BeginPatch, Patches
  <2>2. \A w \in Attempts : IsPromoted(w)' <=> IsPromoted(w)
    BY <1>9, <1>14 DEF BeginPatch, Transition
  <2>3. patch.todo = {} /\ patch.done = {}
    BY <2>1 DEF WorkspaceInv, StagedAreUnedited
  <2>4. CASE CandidateChanges = {}
    <3>1. PromiseInv' /\ Promise!Begin
      BY <2>1, <2>2, <2>3, <2>4, BeginKeeps DEF Rechecked
    <3> QED BY <3>1 DEF PromisedStep, Promise!WritesNext
  <2>5. CASE CandidateChanges # {}
    BY <2>1, <2>2, <2>3, <2>5, QuietStep DEF PromisedStep, WritesProject
  <2> QED BY <2>4, <2>5
<1>15. CASE Stage
  <2>1. /\ patch.at = "stage" /\ Rechecked /\ patch'.at = "commit"
        /\ patch'.todo = CandidateChanges /\ patch'.done = patch.done
        /\ UNCHANGED <<project, evidence, stage, rows>>
    BY <1>15 DEF Stage, Patches
  <2>2. patch.done = {}
    BY <2>1 DEF WorkspaceInv, StagedAreUnedited
  <2>3. PromiseInv' /\ Promise!Begin
    BY <2>1, <2>2, BeginKeeps
  <2> QED BY <2>3 DEF PromisedStep, Promise!WritesNext
<1>16. CASE StageFails \/ CommitFails \/ VerifyFails
  <2>1. /\ patch.at # "idle" /\ patch' = NoPatch /\ stage' = "completed"
        /\ Transition(patch.row, "promoting", "recovery_required")
    BY <1>16 DEF StageFails, CommitFails, VerifyFails, PromotionFails, Committed
  <2>2. \A w \in Attempts : ~IsPromoted(w)'
    BY <1>9, <2>1 DEF Transition
  <2>3. PICK back \in SUBSET patch.done :
           project' = [f \in Files |-> IF f \in back THEN Source ELSE project[f]]
    BY <1>9, <1>16 DEF StageFails, CommitFails, VerifyFails
  <2>4. PromiseInv' /\ (Promise!PutBack \/ Promise!Close)
    BY <1>9, <2>1, <2>2, <2>3, EndKeeps
  <2> QED BY <2>4 DEF PromisedStep, Promise!WritesNext
<1>17. ASSUME NEW f \in Files, CommitFile(f) PROVE PromisedStep
  <2>1. /\ patch.at = "commit" /\ patch'.at = "commit" /\ f \in patch.todo
        /\ \E c \in {evidence.tree[f], Skewed} : project' = [project EXCEPT ![f] = c]
        /\ patch'.todo = patch.todo \ {f} /\ patch'.done = patch.done \cup {f}
        /\ UNCHANGED <<rows, stage, evidence>>
    <3>1. patch' = [patch EXCEPT !.todo = patch.todo \ {f}, !.done = patch.done \cup {f}]
      BY <1>17 DEF CommitFile
    <3>2. /\ patch'.at = patch.at /\ patch'.todo = patch.todo \ {f}
          /\ patch'.done = patch.done \cup {f}
      BY <3>1 DEF Patches
    <3> QED BY <1>17, <3>2 DEF CommitFile
  <2>2. /\ Phase = "writing" /\ Phase' = "writing"
        /\ WrittenTree = evidence.tree /\ WrittenTree' = WrittenTree
    BY <2>1 DEF Phase, WrittenTree, WritesProject
  <2>3. Promise!Write(f)
    BY <2>1, <2>2 DEF Promise!Write
  <2>4. PromiseInv'
    BY <2>1 DEF PromiseInv, CandidateChanges
  <2> QED BY <2>3, <2>4 DEF PromisedStep, Promise!WritesNext
<1>18. ASSUME NEW f \in Files, UserEdits(f) PROVE PromisedStep
  <2>1. project' = [project EXCEPT ![f] = Edited] /\ UNCHANGED <<rows, patch, stage, evidence>>
    BY <1>18 DEF UserEdits
  <2>2. Promise!Edit(f)
    BY <2>1 DEF Promise!Edit, Phase, WrittenTree, WritesProject
  <2>3. PromiseInv'
    BY <2>1 DEF PromiseInv, CandidateChanges
  <2> QED BY <2>2, <2>3 DEF PromisedStep, Promise!WritesNext
<1>19. CASE Promoted
  <2>1. /\ Committed /\ PromotionVerified /\ patch' = NoPatch /\ stage' = "completed"
        /\ Transition(patch.row, "promoting", "promoted") /\ UNCHANGED <<project, evidence>>
    BY <1>19 DEF Promoted
  <2>2. patch.todo = {} /\ patch.done = CandidateChanges /\ WritesProject
    BY <2>1 DEF Committed, PromiseInv, WorkspaceInv, StagedAreUnedited, WritesProject
  <2>3. /\ ~WritesProject' /\ patch'.at = "idle" /\ patch'.todo = {} /\ patch'.done = {}
    BY <2>1 DEF NoPatch, WritesProject
  <2>4. rows'[patch.row].status = "promoted" /\ patch.row \in Attempts
    <3>1. patch.row \in Attempts
      BY <1>9, <2>2 DEF WritesProject
    <3>2. rows' = [rows EXCEPT ![patch.row].status = "promoted"]
      BY <2>1 DEF Transition
    <3> QED BY <3>1, <3>2
  <2>5. Phase = "writing" /\ WrittenTree = evidence.tree
    BY <2>2 DEF Phase, WrittenTree
  <2>6. Phase' = "promoted" /\ WrittenTree' = SourceTree
    <3>1. \E w \in Attempts : rows'[w].status = "promoted"
      BY <2>4
    <3> QED BY <2>3, <3>1 DEF Phase, WrittenTree
  <2>7. \A f \in patch.done : project[f] = WrittenTree[f]
    BY <2>1, <2>2, <2>5 DEF PromotionVerified
  <2>8. Promise!Complete
    BY <2>1, <2>2, <2>3, <2>5, <2>6, <2>7
       DEF Promise!Complete, Promise!Ends, Promise!Found, SourceTree
  <2>9. PromiseInv'
    BY <2>1, <2>3 DEF PromiseInv
  <2> QED BY <2>8, <2>9 DEF PromisedStep, Promise!WritesNext
<1>20. CASE Housekeep
  <2>1. UNCHANGED <<project, patch, stage, evidence>>
    BY <1>20 DEF Housekeep
  <2>2. \A w \in Attempts : IsPromoted(w)' => IsPromoted(w)
    BY <1>20 DEF Housekeep, NoRow
  <2>3. CASE \A w \in Attempts : IsPromoted(w)' <=> IsPromoted(w)
    BY <2>1, <2>3, QuietStep DEF PromisedStep
  <2>4. CASE ~\A w \in Attempts : IsPromoted(w)' <=> IsPromoted(w)
    <3>1. PICK w \in Attempts : IsPromoted(w)
      BY <2>2, <2>4
    <3>2. \A v \in Attempts : ~IsPromoted(v)'
      BY <1>20 DEF Housekeep, NoRow
    <3>3. stage = "completed" /\ patch.at = "idle"
      BY <1>9, <3>1
    <3>4. Phase = "promoted" /\ Phase' = "over" /\ WrittenTree' = WrittenTree
      BY <2>1, <3>1, <3>2, <3>3 DEF Phase, WrittenTree, WritesProject
    <3>5. Promise!Close
      BY <2>1, <3>4 DEF Promise!Close
    <3>6. PromiseInv'
      BY <2>1, <3>2, <3>3 DEF PromiseInv
    <3> QED BY <3>5, <3>6 DEF PromisedStep, Promise!WritesNext
  <2> QED BY <2>3, <2>4
<1>21. CASE CrashWorkspace
  <2>1. /\ stage # "completed" /\ patch' = NoPatch /\ UNCHANGED <<rows, project>>
        /\ stage' = CASE stage \in {"approved", "promote"} -> "completed"
                      [] stage = "preparing" -> "stuck"
                      [] OTHER -> stage
    BY <1>21 DEF CrashWorkspace
  <2>2. CASE stage \in {"approved", "promote"}
    <3>1. PromiseInv' /\ (Promise!PutBack \/ Promise!Close)
      BY <1>9, <2>1, <2>2, EndKeeps
    <3> QED BY <3>1 DEF PromisedStep, Promise!WritesNext
  <2>3. CASE stage \notin {"approved", "promote"}
    <3>1. /\ stage' # "completed" /\ ~WritesProject /\ ~WritesProject'
          /\ patch'.todo = {} /\ patch'.done = {}
      BY <1>9, <2>1, <2>3 DEF WritesProject, NoPatch
    <3> QED BY <2>1, <3>1, QuietStep DEF PromisedStep
  <2> QED BY <2>2, <2>3
<1> QED BY <1>1, <1>2, <1>3, <1>4, <1>5, <1>6, <1>7, <1>8, <1>10, <1>11, <1>12, <1>13,
           <1>14, <1>15, <1>16, <1>17, <1>18, <1>19, <1>20, <1>21
        DEF WorkspaceNext

LEMMA PromiseStep ==
    Typed /\ WorkspaceInv /\ PromiseInv /\ [WorkspaceNext]_wsVars
        => PromiseInv' /\ [Promise!WritesNext]_promiseVars
<1> SUFFICES ASSUME Typed, WorkspaceInv, PromiseInv, [WorkspaceNext]_wsVars
             PROVE  PromiseInv' /\ [Promise!WritesNext]_promiseVars
  OBVIOUS
<1>1. CASE WorkspaceNext
  <2>1. PromisedStep
    BY <1>1, PromisedSteps
  <2> QED BY <2>1 DEF PromisedStep
<1>2. CASE UNCHANGED wsVars
  <2>1. PromiseInv' /\ UNCHANGED promiseVars
    BY <1>2, QuietStep DEF wsVars, IsPromoted
  <2> QED BY <2>1
<1> QED BY <1>1, <1>2

LEMMA PromiseInitially == WorkspaceInit => PromiseInv /\ Promise!WritesInit
<1> SUFFICES ASSUME WorkspaceInit PROVE PromiseInv /\ Promise!WritesInit
  OBVIOUS
<1>1. /\ \A w \in Attempts : ~IsPromoted(w)
      /\ patch.at = "idle" /\ patch.todo = {} /\ patch.done = {} /\ stage = "prepare"
      /\ project = SourceTree
  BY DEF WorkspaceInit, IsPromoted, NoRow, NoPatch
<1>2. PromiseInv
  BY <1>1 DEF PromiseInv
<1>3. Phase = "before" /\ WrittenTree = SourceTree
  BY <1>1 DEF Phase, WrittenTree, WritesProject, IsPromoted
<1> QED BY <1>1, <1>2, <1>3 DEF Promise!WritesInit, Promise!Found, SourceTree

\* The candidate workspace implements ProjectWrites: through every attempt, failure,
\* crash and clean-up, the project is written once, from one frozen candidate, on files
\* found unchanged, is promoted only when all of it is there, and is otherwise put back
\* where it was written and nowhere else.
THEOREM WorkspaceKeepsPromise == WorkspaceSpec => WorkspaceImplementsPromise
<1>1. Typed /\ WorkspaceInv /\ PromiseInv /\ [WorkspaceNext]_wsVars
         => PromiseInv' /\ [Promise!WritesNext]_Promise!writesVars
  BY PromiseStep DEF promiseVars, Promise!writesVars
<1> QED BY <1>1, PromiseInitially, WorkspaceInitially, WorkspaceSafetyStep, PTL
        DEF WorkspaceSpec, WorkspaceImplementsPromise, Promise!WritesSpec
=============================================================================
