-------------------------- MODULE CandidateWorkspace --------------------------
(* The isolated implementation of one task: the rows and trees of               *)
(* src/src/workspace/, the effects of task-orchestrator.ts that move them, the   *)
(* launch that enters a tree (safe-agent-launch-coordinator.ts) and the          *)
(* promotion that writes the project (workspace-promotion-service.ts over        *)
(* guard/patch-applier.ts), while a user edits the project, agents live on and   *)
(* the program crashes.                                                          *)
(*                                                                               *)
(* Hashes, manifests, bundles and diffs are the contents they identify.  A file  *)
(* that is not there has a content too, so additions and deletions are changes.  *)
EXTENDS Integers, FiniteSets

CONSTANTS Files,           \* paths of the project
          MaxImplementers  \* bound: implementer attempts of the task

ASSUME WorkspaceAssumption == MaxImplementers \in Nat \ {0}

VARIABLES rows,       \* implementation_workspaces, by the attempt that created the row
          trees,      \* candidate tree of each row
          project,    \* the canonical project root
          authority,  \* in memory: #activeWorkspaceAuthorization
          evidence,   \* in memory: #lastCandidateEvidence
          stage,      \* what the task does next
          attempt,    \* its implementer attempt
          entering,   \* launches that are prepared and not yet authorised
          inside,     \* agents at work in a tree
          patch,      \* the promotion under way
          lateEdits,  \* history: files the user has edited since the last recheck
          unfrozen    \* history: a pause has taken the attempt to review unfrozen

wsVars == <<rows, trees, project, authority, evidence, stage, attempt, entering,
            inside, patch, lateEdits, unfrozen>>
memory == <<authority, evidence>>
history == <<lateEdits, unfrozen>>

Attempts == 1..MaxImplementers
Nobody == 0

\* FileContents: of the source baseline, written by the agent of an attempt, edited
\* by the user, and what a patch makes of a file without a final newline.
Source == 0
Edited == -1
Skewed == -2
FileContents == {Source, Edited, Skewed} \cup Attempts

SourceTree == [f \in Files |-> Source]

Statuses == {"none", "preparing", "ready", "running", "candidate_ready", "under_review",
             "approved", "validating", "promoting", "promoted", "abandoned",
             "recovery_required"}

\* `attempt` is also what the authorisation's id is made of.
NoRow == [status |-> "none", attempt |-> Nobody, consumed |-> FALSE, expired |-> FALSE,
          retained |-> "unset"]

NoPatch == [row |-> Nobody, todo |-> {}, done |-> {}, at |-> "idle"]
NoEvidence == [row |-> Nobody, attempt |-> Nobody, tree |-> SourceTree]
NoAuthority == [row |-> Nobody, attempt |-> Nobody]

WorkspaceTypeOK ==
    /\ \A w \in Attempts : /\ rows[w].status \in Statuses
                           /\ rows[w].attempt \in {Nobody} \cup Attempts
    /\ trees \in [Attempts -> [Files -> FileContents]]
    /\ project \in [Files -> FileContents]
    /\ authority \in [row : {Nobody} \cup Attempts, attempt : {Nobody} \cup Attempts]
    /\ stage \in {"prepare", "preparing", "launch", "running", "ended", "review", "approved",
                  "promote", "completed", "stuck"}
    /\ attempt \in Attempts
    /\ entering \cup inside \subseteq [attempt : Attempts, row : Attempts]
    /\ patch.todo \cup patch.done \cup lateEdits \subseteq Files

\* ImplementationWorkspaceRepository.transition: from the status that is expected,
\* along LEGAL_TRANSITIONS.
Transition(w, from, to) ==
    /\ rows[w].status = from
    /\ rows' = [rows EXCEPT ![w].status = to]

Stuck == stage' = "stuck"
-----------------------------------------------------------------------------
\* PrepareImplementationWorkspace

Reusable(w) == rows[w].status \in {"candidate_ready", "under_review", "running", "ready",
                                   "approved", "recovery_required"}

\* #findReusableCandidateWorkspace: the row in memory, else the latest durable one.
ToReuse(w) ==
    /\ Reusable(w)
    /\ IF authority.row # Nobody /\ Reusable(authority.row)
       THEN w = authority.row
       ELSE \A v \in Attempts : Reusable(v) => v <= w

\* #reissueWorkspaceAuthorization sets the row whatever its status.
Reissue ==
    /\ stage = "prepare"
    /\ \E w \in Attempts :
          /\ ToReuse(w)
          /\ rows' = [rows EXCEPT ![w].status = "ready", ![w].attempt = attempt,
                                  ![w].consumed = FALSE, ![w].expired = FALSE]
          /\ authority' = [row |-> w, attempt |-> attempt]
    /\ stage' = "launch"
    /\ UNCHANGED <<trees, project, evidence, attempt, entering, inside, patch, history>>

\* materializeFromBaseline: the row is durable before the tree is copied.
CreateRow ==
    /\ stage = "prepare" /\ ~\E w \in Attempts : Reusable(w)
    /\ rows' = [rows EXCEPT ![attempt] = [NoRow EXCEPT !.status = "preparing",
                                                       !.attempt = attempt]]
    /\ stage' = "preparing"
    /\ UNCHANGED <<trees, project, memory, attempt, entering, inside, patch, history>>

Materialize ==
    /\ stage = "preparing"
    /\ Transition(attempt, "preparing", "ready")
    /\ trees' = [trees EXCEPT ![attempt] = SourceTree]
    /\ authority' = [row |-> attempt, attempt |-> attempt]
    /\ stage' = "launch"
    /\ UNCHANGED <<project, evidence, attempt, entering, inside, patch, history>>

MaterializeFails ==
    /\ stage = "preparing"
    /\ Transition(attempt, "preparing", "abandoned")
    /\ Stuck
    /\ UNCHANGED <<trees, project, memory, attempt, entering, inside, patch, history>>
-----------------------------------------------------------------------------
\* The launch of the implementer

\* The row is found by the id of the authorisation, which names the attempt.
Authorizes(l, w) == /\ w \in Attempts /\ w = l.row /\ rows[w].attempt = l.attempt
                    /\ rows[w].status = "ready"
                    /\ ~rows[w].consumed /\ ~rows[w].expired

\* #peekWorkspaceAuthorizationReady; the budget is reserved next, over an await.
PrepareLaunch ==
    /\ stage = "launch" /\ authority.attempt = attempt
    /\ LET l == [attempt |-> attempt, row |-> authority.row]
       IN  Authorizes(l, l.row) /\ entering' = entering \cup {l}
    /\ stage' = "running"
    /\ UNCHANGED <<rows, trees, project, memory, attempt, inside, patch, history>>

LaunchRefusedAtPeek ==
    /\ stage = "launch"
    /\ \/ authority.attempt # attempt
       \/ ~Authorizes([attempt |-> attempt, row |-> authority.row], authority.row)
    /\ Stuck
    /\ UNCHANGED <<rows, trees, project, memory, attempt, entering, inside, patch, history>>

\* consumeAuthorization; the start gate may still deny the agent that is paid for.
AuthorizeLaunch(l) ==
    /\ l \in entering /\ Authorizes(l, l.row)
    /\ rows' = [rows EXCEPT ![l.row].status = "running", ![l.row].consumed = TRUE]
    /\ entering' = entering \ {l}
    /\ \/ inside' = inside \cup {l} /\ UNCHANGED stage
       \/ /\ stage' = IF l.attempt = attempt /\ stage = "running" THEN "stuck" ELSE stage
          /\ UNCHANGED inside
    /\ UNCHANGED <<trees, project, memory, attempt, patch, history>>

ConsumeRefused(l) ==
    /\ l \in entering /\ ~Authorizes(l, l.row)
    /\ entering' = entering \ {l}
    /\ stage' = IF l.attempt = attempt /\ stage = "running" THEN "stuck" ELSE stage
    /\ UNCHANGED <<rows, trees, project, memory, attempt, inside, patch, history>>

Expires(w) ==
    /\ rows[w].status = "ready" /\ ~rows[w].expired
    /\ rows' = [rows EXCEPT ![w].expired = TRUE]
    /\ UNCHANGED <<trees, project, memory, stage, attempt, entering, inside, patch, history>>

AgentWrites(l, f) ==
    /\ l \in inside /\ trees[l.row][f] # l.attempt
    /\ trees' = [trees EXCEPT ![l.row][f] = l.attempt]
    /\ UNCHANGED <<rows, project, memory, stage, attempt, entering, inside, patch, history>>

AgentEnds(l) ==
    /\ l \in inside
    /\ inside' = inside \ {l}
    /\ stage' = IF l.attempt = attempt /\ stage = "running" THEN "ended" ELSE stage
    /\ UNCHANGED <<rows, trees, project, memory, attempt, entering, patch, history>>

\* The user or an inspection gives the run up and starts another attempt; the agent
\* may live on.
NextAttempt ==
    /\ stage \in {"launch", "running", "stuck"} /\ patch = NoPatch
    /\ attempt < MaxImplementers
    /\ attempt' = attempt + 1
    /\ stage' = "prepare"
    /\ UNCHANGED <<rows, trees, project, memory, entering, inside, patch, history>>
-----------------------------------------------------------------------------
\* FinalizeCandidateChangeSet and the review

\* Mutation: what has been frozen once is not frozen again.
FinalizeOnce ==
    /\ stage = "ended" /\ authority.attempt = attempt
    /\ evidence' = IF evidence = NoEvidence
                   THEN [row |-> authority.row, attempt |-> attempt, tree |-> trees[authority.row]]
                   ELSE evidence
    /\ rows' = [rows EXCEPT ![authority.row].status =
                    IF @ \in {"running", "candidate_ready"} THEN "under_review" ELSE @]
    /\ stage' = "review" /\ unfrozen' = FALSE
    /\ UNCHANGED <<trees, project, authority, attempt, entering, inside, patch, lateEdits>>

Finalize ==
    /\ stage = "ended" /\ authority.attempt = attempt
    /\ evidence' = [row |-> authority.row, attempt |-> attempt, tree |-> trees[authority.row]]
    /\ rows' = [rows EXCEPT ![authority.row].status =
                    IF @ \in {"running", "candidate_ready"} THEN "under_review" ELSE @]
    /\ stage' = "review" /\ unfrozen' = FALSE
    /\ UNCHANGED <<trees, project, authority, attempt, entering, inside, patch, lateEdits>>

\* Nothing prepared in this process, or content that a change set refuses.
FinalizeFails ==
    /\ stage = "ended"
    /\ Stuck
    /\ UNCHANGED <<rows, trees, project, memory, attempt, entering, inside, patch, history>>

\* A pause takes the task into the review without FinalizeCandidateChangeSet.
FinalizeLost ==
    /\ stage = "ended"
    /\ stage' = "review" /\ unfrozen' = TRUE
    /\ UNCHANGED <<rows, trees, project, memory, attempt, entering, inside, patch, lateEdits>>

\* Reviewer and master are pointed at the evidence; without any they do not start.
ReviewFails ==
    /\ stage = "review" /\ evidence = NoEvidence
    /\ Stuck
    /\ UNCHANGED <<rows, trees, project, memory, attempt, entering, inside, patch, history>>

Approve ==
    /\ stage = "review" /\ evidence # NoEvidence
    /\ stage' = "approved"
    /\ UNCHANGED <<rows, trees, project, memory, attempt, entering, inside, patch, history>>

RequestRework ==
    /\ stage = "review" /\ evidence # NoEvidence /\ attempt < MaxImplementers
    /\ attempt' = attempt + 1
    /\ stage' = "prepare"
    /\ UNCHANGED <<rows, trees, project, memory, entering, inside, patch, history>>
-----------------------------------------------------------------------------
\* PromoteCandidateWorkspace: the task is completed already.

CandidateChanges == {f \in Files : evidence.tree[f] # Source}

\* #promoteCandidateWorkspace moves the row to approved whatever it has missed.
CanApprove(w) == rows[w].status \in {"ready", "running", "candidate_ready", "under_review",
                                     "approved"}

\* The whole project is compared with the source baseline.
Drifted == project # SourceTree

\* The evidence has to be of the workspace in memory, of whichever attempt.
Promotable == /\ authority.row # Nobody /\ evidence # NoEvidence
              /\ evidence.row = authority.row
              /\ CanApprove(authority.row)
              /\ ~Drifted

PromotionBlocked ==
    /\ stage = "approved" /\ ~Promotable
    /\ rows' = IF authority.row # Nobody /\ evidence # NoEvidence /\ CanApprove(authority.row)
               THEN [rows EXCEPT ![authority.row].status = "approved"]
               ELSE rows
    /\ stage' = "completed"
    /\ UNCHANGED <<trees, project, memory, attempt, entering, inside, patch, history>>

Validating ==
    /\ stage = "approved" /\ Promotable
    /\ rows' = [rows EXCEPT ![authority.row].status = "validating"]
    /\ stage' = "promote"
    /\ patch' = [NoPatch EXCEPT !.row = authority.row, !.at = "validating"]
    /\ UNCHANGED <<trees, project, memory, attempt, entering, inside, history>>

\* Mutation: the patch is applied on the strength of the earlier status.
BeginPatchUnmarked ==
    /\ stage = "promote" /\ patch.at = "validating"
    /\ patch' = [patch EXCEPT !.at = IF CandidateChanges = {} THEN "applied" ELSE "stage"]
    /\ UNCHANGED <<rows, trees, project, memory, stage, attempt, entering, inside, history>>

BeginPatch ==
    /\ stage = "promote" /\ patch.at = "validating"
    /\ Transition(patch.row, "validating", "promoting")
    /\ patch' = [patch EXCEPT !.at = IF CandidateChanges = {} THEN "applied" ELSE "stage"]
    /\ UNCHANGED <<trees, project, memory, stage, attempt, entering, inside, history>>

\* Mutation: files are staged without comparing them with the baseline again.
NoRecheck == TRUE

\* materializePromotionBaseline, validate and the stage phase: every file that the
\* patch touches is compared once more.
Rechecked == \A f \in CandidateChanges : project[f] = Source

Stage ==
    /\ patch.at = "stage" /\ Rechecked
    /\ patch' = [patch EXCEPT !.todo = CandidateChanges, !.at = "commit"]
    /\ lateEdits' = {}
    /\ UNCHANGED <<rows, trees, project, memory, stage, attempt, entering, inside, unfrozen>>

PromotionFails == /\ Transition(patch.row, "promoting", "recovery_required")
                  /\ patch' = NoPatch
                  /\ stage' = "completed"

\* A recheck fails, the guard denies, a temporary file cannot be written.
StageFails ==
    /\ patch.at = "stage"
    /\ PromotionFails
    /\ UNCHANGED <<trees, project, memory, attempt, entering, inside, history>>

\* The rename of one staged file.
CommitFile(f) ==
    /\ patch.at = "commit" /\ f \in patch.todo
    /\ \E c \in {evidence.tree[f], Skewed} : project' = [project EXCEPT ![f] = c]
    /\ patch' = [patch EXCEPT !.todo = @ \ {f}, !.done = @ \cup {f}]
    /\ UNCHANGED <<rows, trees, memory, stage, attempt, entering, inside, history>>

\* A rename fails: what was committed is written back, file by file as far as it goes.
CommitFails ==
    /\ patch.at = "commit" /\ patch.todo # {}
    /\ \E back \in SUBSET patch.done :
          project' = [f \in Files |-> IF f \in back THEN Source ELSE project[f]]
    /\ PromotionFails
    /\ UNCHANGED <<trees, memory, attempt, entering, inside, history>>

Committed == \/ patch.at = "applied"
             \/ patch.at = "commit" /\ patch.todo = {}

\* Mutation: what was written is not compared with the candidate.
NotVerified == TRUE

\* verifyPostApplyChangeSetEquality
PromotionVerified == \A f \in CandidateChanges : project[f] = evidence.tree[f]

Promoted ==
    /\ Committed /\ PromotionVerified
    /\ Transition(patch.row, "promoting", "promoted")
    /\ patch' = NoPatch
    /\ stage' = "completed"
    /\ UNCHANGED <<trees, project, memory, attempt, entering, inside, history>>

\* Files that were added are deleted again, the others stay as they are.
VerifyFails ==
    /\ Committed /\ ~PromotionVerified
    /\ \E added \in SUBSET patch.done :
          project' = [f \in Files |-> IF f \in added THEN Source ELSE project[f]]
    /\ PromotionFails
    /\ UNCHANGED <<trees, memory, attempt, entering, inside, history>>
-----------------------------------------------------------------------------
\* The surroundings

UserEdits(f) ==
    /\ project[f] # Edited
    /\ project' = [project EXCEPT ![f] = Edited]
    /\ lateEdits' = IF patch.at = "commit" THEN lateEdits \cup {f} ELSE lateEdits
    /\ UNCHANGED <<rows, trees, memory, stage, attempt, entering, inside, patch, unfrozen>>

\* abandonWorkspace, and of a promotion that failed on an audited cancellation.
AbandonWorkspace(w) ==
    /\ rows[w].status \in {"preparing", "ready", "running", "candidate_ready", "under_review",
                           "approved", "recovery_required"}
    /\ rows' = [rows EXCEPT ![w].status = "abandoned", ![w].retained = "running"]
    /\ UNCHANGED <<trees, project, memory, stage, attempt, entering, inside, patch, history>>

RetentionEnds(w) ==
    /\ rows[w].retained = "running"
    /\ rows' = [rows EXCEPT ![w].retained = "over"]
    /\ UNCHANGED <<trees, project, memory, stage, attempt, entering, inside, patch, history>>

\* housekeepImplementationWorkspaces, whenever an instance starts: rows that are
\* promoted, and abandoned ones whose retention is over.
Housekeep ==
    /\ \E w \in Attempts : rows[w].status = "promoted" \/ rows[w].retained = "over"
    /\ rows' = [w \in Attempts |->
                   IF \/ rows[w].status = "promoted"
                      \/ rows[w].status = "abandoned" /\ rows[w].retained = "over"
                   THEN NoRow ELSE rows[w]]
    /\ UNCHANGED <<trees, project, memory, stage, attempt, entering, inside, patch, history>>

\* The process dies: memory is lost, rows, trees and agents stay.  What is promoted
\* or half promoted is of a completed task, which nobody resumes.
CrashWorkspace ==
    /\ stage \notin {"completed", "stuck"}
    /\ authority' = NoAuthority /\ evidence' = NoEvidence
    /\ entering' = {} /\ patch' = NoPatch
    /\ stage' = CASE stage \in {"approved", "promote"} -> "completed"
                  [] stage = "preparing" -> "stuck"
                  [] OTHER -> stage
    /\ UNCHANGED <<rows, trees, project, attempt, inside, history>>
-----------------------------------------------------------------------------
WorkspaceInit ==
    /\ rows = [w \in Attempts |-> NoRow]
    /\ trees = [w \in Attempts |-> SourceTree]
    /\ project = SourceTree
    /\ authority = NoAuthority /\ evidence = NoEvidence
    /\ stage = "prepare" /\ attempt = 1
    /\ entering = {} /\ inside = {}
    /\ patch = NoPatch /\ lateEdits = {} /\ unfrozen = FALSE

WorkspaceNext ==
    \/ Reissue \/ CreateRow \/ Materialize \/ MaterializeFails
    \/ PrepareLaunch \/ LaunchRefusedAtPeek
    \/ \E l \in entering : AuthorizeLaunch(l) \/ ConsumeRefused(l)
    \/ \E l \in inside : AgentEnds(l) \/ \E f \in Files : AgentWrites(l, f)
    \/ NextAttempt
    \/ Finalize \/ FinalizeFails \/ FinalizeLost
    \/ ReviewFails \/ Approve \/ RequestRework
    \/ PromotionBlocked \/ Validating \/ BeginPatch \/ Stage \/ StageFails
    \/ \E f \in Files : CommitFile(f) \/ UserEdits(f)
    \/ CommitFails \/ Promoted \/ VerifyFails
    \/ \E w \in Attempts : Expires(w) \/ AbandonWorkspace(w) \/ RetentionEnds(w)
    \/ Housekeep \/ CrashWorkspace

WorkspaceSpec == WorkspaceInit /\ [][WorkspaceNext]_wsVars
-----------------------------------------------------------------------------
\* As long as a row can still be worked on or validated, nothing of a candidate has
\* reached the project: promote marks the row before its first write, and a
\* promotion that stops half way never leaves a row that looks untouched.
NoWorkOnAPromotedProject ==
    (\E f \in Files : project[f] \in Attempts \cup {Skewed})
        => \A w \in Attempts : rows[w].status \notin {"ready", "running", "candidate_ready",
                                                     "under_review", "approved", "validating"}

\* What the user has written into the project before the recheck of a promotion is
\* never overwritten by it; the recheck protects what the first comparison has not seen.
EditsSurvivePromotion ==
    [][\A f \in Files \ lateEdits : project[f] = Edited => project'[f] = Edited]_wsVars

\* What is promoted was frozen after the last attempt, unless a pause took that
\* attempt to the review without freezing it.
PromotedCandidateIsCurrent ==
    [][\A w \in Attempts :
          rows[w].status = "promoting" /\ rows'[w].status = "promoted"
              => evidence.attempt = attempt \/ unfrozen]_wsVars
-----------------------------------------------------------------------------
WritesProject == patch.at \in {"commit", "applied"}
WrittenTree == IF WritesProject THEN evidence.tree ELSE SourceTree

Phase == IF WritesProject THEN "writing"
         ELSE IF \E w \in Attempts : rows[w].status = "promoted" THEN "promoted"
         ELSE IF stage = "completed" THEN "over" ELSE "before"

Promise == INSTANCE ProjectWrites
              WITH phase <- Phase, candidate <- WrittenTree,
                   todo <- patch.todo, done <- patch.done

\* Attempts, agents, launches and restarts aside, a task writes its project as promised:
\* once, from one frozen candidate, and with nothing put back that it has not written.
WorkspaceImplementsPromise == Promise!WritesSpec
=============================================================================
