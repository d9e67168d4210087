---------------------------- MODULE ControlProofs ----------------------------
(* Safety of the services that change a running task from outside, for any      *)
(* number of attempts, of callers that clean up at the same time and of          *)
(* messages: the operator leaves only a process that is proved gone, a pause     *)
(* overwrites nothing, and a valid review has seen the current requirements.     *)
EXTENDS TaskControl, FiniteSetTheorems, TLAPS

-----------------------------------------------------------------------------
(* Types, and what each kind of edit makes of them. *)

Involved == {"running", "interrupting", "cleanup_failed"}  \* the states with a current attempt
TaskStates == Involved \cup {"paused_after_run", "interrupted_needs_inspection"}
Owner == {0} \cup TaskAttempts
Versions == 1 .. Cardinality(Messages) + 1
Tasks == [state : TaskStates, attempt : Owner, last : TaskAttempts, pause : BOOLEAN,
          seen : BOOLEAN, req : Versions]
Rows == [row : {"none", "pending", "active", "completed"}, req : 0 .. Cardinality(Messages) + 1,
         proc : {"none", "alive", "gone"}, result : {"none", "durable", "consumed"},
         cleanup : {"none", "intent", "failed", "completed"}, late : BOOLEAN]
AttemptRows == [TaskAttempts -> Rows]
Posts == [Messages -> [kind : {"none", "operational", "scope_change"},
                       state : {"absent", "queued", "delivered", "acknowledged",
                                "applied", "retry_safe", "dead_letter"}]]
Settlements == [attempt : Owner, terminal : BOOLEAN]
Jobs == [at : {"none", "stopping", "forcing", "verified", "feeding"}, attempt : Owner]
Operations == [settle : Settlements, work : [Workers -> Jobs]]
Launches == [attempt : TaskAttempts, req : Versions]

\* The changes of scope that have been applied: each is one requirement version.
AppliedChanges == {m \in Messages : tc_msg[m].kind = "scope_change" /\ tc_msg[m].state = "applied"}

TypedControl ==
    /\ tc_task \in Tasks
    /\ tc_att \in AttemptRows
    /\ tc_msg \in Posts
    /\ tc_rev \in SUBSET (TaskAttempts \X BOOLEAN)
    /\ tc_ops \in Operations
    /\ tc_due \in SUBSET Launches
    /\ Task.state \in Involved => Task.attempt \in TaskAttempts /\ Task.attempt =< Task.last
    /\ \A w \in Workers : ~Free(w) => Of(w) \in TaskAttempts
    /\ Task.req = 1 + Cardinality(AppliedChanges)

LEMMA Bounds ==
    /\ TaskAttempts \subseteq Nat
    /\ 1 \in TaskAttempts /\ 0 \notin TaskAttempts
    /\ \A a, b \in TaskAttempts : a < b => a + 1 \in TaskAttempts
    /\ Cardinality(Messages) \in Nat
BY ControlAssumption, FS_CardinalityType

LEMMA FreshIsNew ==
    ASSUME TypedControl, Unused # {}
    PROVE  Fresh \in TaskAttempts /\ Fresh > Task.last
<1> DEFINE next == Task.last + 1
<1>1. Task.last \in TaskAttempts
  BY DEF TypedControl, Tasks, Task
<1>2. PICK b \in TaskAttempts : b > Task.last
  BY DEF Unused
<1>3. \A a \in TaskAttempts : a \in Nat
  BY Bounds
<1>4. next \in TaskAttempts
  BY <1>1, <1>2, <1>3, Bounds
<1>5. next \in Unused /\ \A y \in Unused : next =< y
  BY <1>1, <1>3, <1>4 DEF Unused
<1>6. Fresh \in Unused
  BY <1>5 DEF Fresh, Min
<1> QED BY <1>6 DEF Unused

LEMMA AppliedIsFinite ==
    /\ IsFiniteSet(AppliedChanges) /\ Cardinality(AppliedChanges) \in Nat
    /\ Cardinality(AppliedChanges) =< Cardinality(Messages)
BY ControlAssumption, FS_Subset, FS_CardinalityType, Zenon DEF AppliedChanges

LEMMA RowEdits ==
    ASSUME NEW rs \in AttemptRows, NEW a \in TaskAttempts
    PROVE  /\ \A v \in Versions : [rs EXCEPT ![a] = [@ EXCEPT !.row = "pending", !.req = v]]
                                       \in AttemptRows
           /\ \A l \in BOOLEAN : [rs EXCEPT ![a] = [@ EXCEPT !.row = "active", !.proc = "alive",
                                                             !.late = l]] \in AttemptRows
           /\ [rs EXCEPT ![a].proc = "gone"] \in AttemptRows
           /\ [rs EXCEPT ![a] = [@ EXCEPT !.row = "completed", !.result = "durable"]] \in AttemptRows
           /\ [rs EXCEPT ![a].result = "consumed"] \in AttemptRows
           /\ [rs EXCEPT ![a].cleanup = "intent"] \in AttemptRows
           /\ [rs EXCEPT ![a].cleanup = "completed"] \in AttemptRows
           /\ [rs EXCEPT ![a].cleanup = IF @ = "intent" THEN "failed" ELSE @] \in AttemptRows
<1>1. \A v \in Versions : [rs EXCEPT ![a] = [@ EXCEPT !.row = "pending", !.req = v]]
                               \in AttemptRows
  <2> TAKE v \in Versions
  <2> v \in 0 .. Cardinality(Messages) + 1
    BY Bounds DEF Versions
  <2> QED BY DEF AttemptRows, Rows
<1>2. [rs EXCEPT ![a] = [@ EXCEPT !.row = "completed", !.result = "durable"]] \in AttemptRows
  BY DEF AttemptRows, Rows
<1>3. /\ [rs EXCEPT ![a].proc = "gone"] \in AttemptRows
      /\ [rs EXCEPT ![a].result = "consumed"] \in AttemptRows
      /\ [rs EXCEPT ![a].cleanup = "intent"] \in AttemptRows
      /\ [rs EXCEPT ![a].cleanup = "completed"] \in AttemptRows
  BY DEF AttemptRows, Rows
<1>4. [rs EXCEPT ![a].cleanup = IF @ = "intent" THEN "failed" ELSE @] \in AttemptRows
  BY DEF AttemptRows, Rows
<1>5. \A l \in BOOLEAN : [rs EXCEPT ![a] = [@ EXCEPT !.row = "active", !.proc = "alive",
                                                     !.late = l]] \in AttemptRows
  BY DEF AttemptRows, Rows
<1> QED BY <1>1, <1>2, <1>3, <1>4, <1>5

LEMMA OperationEdits ==
    ASSUME NEW op \in Operations
    PROVE  /\ \A s \in Settlements : [op EXCEPT !.settle = s] \in Operations
           /\ \A w \in Workers, j \in Jobs : [op EXCEPT !.work[w] = j] \in Operations
BY DEF Operations

LEMMA PostEdits ==
    ASSUME NEW ms \in Posts, NEW m \in Messages
    PROVE  /\ \A to \in {"queued", "delivered", "acknowledged", "applied", "retry_safe",
                         "dead_letter"} : [ms EXCEPT ![m].state = to] \in Posts
           /\ \A kind \in {"operational", "scope_change"} :
                 [ms EXCEPT ![m] = [kind |-> kind, state |-> "queued"]] \in Posts
BY DEF Posts

LEMMA Fields ==
    ASSUME TypedControl
    PROVE  /\ Task.state \in TaskStates /\ Task.attempt \in Owner /\ Task.last \in TaskAttempts
           /\ Task.req \in Versions /\ Task.pause \in BOOLEAN /\ Task.seen \in BOOLEAN
           /\ \A a \in TaskAttempts : tc_att[a] \in Rows
           /\ tc_ops.settle \in Settlements /\ tc_ops.settle.attempt \in Owner
           /\ tc_ops.settle.terminal \in BOOLEAN
           /\ \A w \in Workers : tc_ops.work[w] \in Jobs /\ Of(w) \in Owner
BY DEF TypedControl, Tasks, Task, AttemptRows, Operations, Settlements, Jobs, Of
-----------------------------------------------------------------------------
(* What a step does to the row of the task: it keeps it, begins an attempt that *)
(* is new, ends the current one, or changes the stage of its interruption.       *)

Keeps == /\ tc_task'.state = Task.state /\ tc_task'.attempt = Task.attempt
         /\ tc_task'.last = Task.last
BeginsNew == /\ tc_task'.state = "running" /\ tc_task'.attempt = tc_task'.last
             /\ tc_task'.last > Task.last
Leaves == /\ tc_task'.state \in TaskStates \ Involved
          /\ tc_task'.last = Task.last
Switches == /\ Task.state \in Involved /\ tc_task'.state \in {"interrupting", "cleanup_failed"}
            /\ tc_task'.attempt = Task.attempt /\ tc_task'.last = Task.last
TaskMoves == Keeps \/ BeginsNew \/ Leaves \/ Switches

\* Whatever is written, a settlement under way sees that the row is another.
Unseen == tc_task' = Task \/ ~tc_task'.seen
Touches == tc_task' \in Tasks /\ tc_task'.req = Task.req /\ TaskMoves /\ Unseen

LEMMA Beginning ==
    ASSUME TypedControl, NEW t \in Tasks, t.last = Task.last, Begins(t)
    PROVE  /\ tc_task' \in Tasks /\ BeginsNew
           /\ ~tc_task'.seen /\ ~tc_task'.pause /\ tc_task'.req = t.req
<1> DEFINE u == [t EXCEPT !.state = "running", !.attempt = Fresh, !.last = Fresh, !.pause = FALSE]
<1>1. Unused # {} /\ tc_task' = [u EXCEPT !.seen = FALSE]
  BY DEF Begins, Writes
<1>2. Fresh \in TaskAttempts /\ Fresh > Task.last
  BY <1>1, FreshIsNew
<1>3. u \in Tasks /\ u.state = "running" /\ u.attempt = Fresh /\ u.last = Fresh /\ ~u.pause
      /\ u.req = t.req
  BY <1>2 DEF Tasks, TaskStates, Involved, Owner
<1> HIDE DEF u
<1> QED BY <1>1, <1>2, <1>3 DEF Tasks, BeginsNew

LEMMA Writing ==
    ASSUME NEW t \in Tasks, Writes(t)
    PROVE  /\ tc_task' \in Tasks /\ ~tc_task'.seen /\ tc_task'.state = t.state
           /\ tc_task'.attempt = t.attempt /\ tc_task'.last = t.last
           /\ tc_task'.pause = t.pause /\ tc_task'.req = t.req
BY DEF Writes, Tasks

LEMMA TaskForms ==
    ASSUME NEW t \in Tasks
    PROVE  /\ \A s \in TaskStates :
                 LET u == [t EXCEPT !.state = s]
                 IN  u \in Tasks /\ u.state = s /\ u.attempt = t.attempt /\ u.last = t.last
                     /\ u.req = t.req
           /\ \A s \in TaskStates :
                 LET u == [t EXCEPT !.state = s, !.attempt = 0]
                 IN  u \in Tasks /\ u.state = s /\ u.attempt = 0 /\ u.last = t.last
                     /\ u.req = t.req
           /\ LET u == [t EXCEPT !.state = "paused_after_run", !.attempt = 0, !.pause = FALSE]
              IN  u \in Tasks /\ u.state = "paused_after_run" /\ u.attempt = 0
                  /\ u.last = t.last /\ u.req = t.req
           /\ LET u == [t EXCEPT !.pause = TRUE]
              IN  u \in Tasks /\ u.state = t.state /\ u.attempt = t.attempt /\ u.last = t.last
                  /\ u.req = t.req
BY DEF Tasks, Owner, TaskStates

LEMMA Pausing ==
    ASSUME TypedControl,
           Writes([Task EXCEPT !.state = "paused_after_run", !.attempt = 0, !.pause = FALSE])
    PROVE  Touches /\ Leaves /\ tc_task'.attempt = 0
<1> DEFINE u == [Task EXCEPT !.state = "paused_after_run", !.attempt = 0, !.pause = FALSE]
<1>1. Task \in Tasks
  BY DEF TypedControl, Task
<1>2. u \in Tasks /\ u.state = "paused_after_run" /\ u.attempt = 0 /\ u.last = Task.last
      /\ u.req = Task.req
  BY <1>1, TaskForms
<1>3. Writes(u)
  OBVIOUS
<1> HIDE DEF u
<1> QED BY <1>2, <1>3, Writing DEF Touches, TaskMoves, Leaves, Unseen, TaskStates, Involved

LEMMA Reducing ==
    ASSUME TypedControl, NEW a \in TaskAttempts, Reduces(a)
    PROVE  /\ Touches /\ ~tc_task'.seen /\ Task.state = "running" /\ Task.attempt = a
           /\ tc_task'.state = "paused_after_run" => Task.pause
           /\ Leaves \/ BeginsNew
<1>1. Task \in Tasks
  BY DEF TypedControl, Task
<1>2. CASE Task.pause
  <2>1. Writes([Task EXCEPT !.state = "paused_after_run", !.attempt = 0, !.pause = FALSE])
    BY <1>2 DEF Reduces
  <2>2. ~tc_task'.seen
    BY <1>1, <2>1 DEF Writes, Tasks
  <2> QED BY <1>2, <2>1, <2>2, Pausing DEF Reduces
<1>3. CASE ~Task.pause
  <2>1. Begins(Task)
    BY <1>3 DEF Reduces
  <2> QED BY <1>1, <2>1, Beginning DEF Reduces, Touches, TaskMoves, Unseen, BeginsNew
<1> QED BY <1>2, <1>3

LEMMA Switching ==
    ASSUME TypedControl, NEW s \in {"interrupting", "cleanup_failed"}, Task.state \in Involved,
           Writes([Task EXCEPT !.state = s])
    PROVE  Touches /\ ~tc_task'.seen /\ Switches /\ tc_task'.state = s
<1>1. Task \in Tasks /\ s \in TaskStates
  BY DEF TypedControl, Task, TaskStates, Involved
<1> DEFINE u == [Task EXCEPT !.state = s]
<1>2. u \in Tasks /\ u.state = s /\ u.attempt = Task.attempt /\ u.last = Task.last
      /\ u.req = Task.req
  BY <1>1, TaskForms
<1>3. Writes(u)
  OBVIOUS
<1> HIDE DEF u
<1> QED BY <1>2, <1>3, Writing DEF Touches, TaskMoves, Switches, Unseen

LEMMA Failing ==
    ASSUME TypedControl, NEW w \in Workers, FailCleanup(w)
    PROVE  Touches
<1>1. CASE Task.state = "interrupting" /\ Writes([Task EXCEPT !.state = "cleanup_failed"])
  BY <1>1, Switching DEF Involved
<1>2. CASE tc_task' = tc_task
  BY <1>2 DEF TypedControl, Touches, TaskMoves, Keeps, Unseen, Task
<1> QED BY <1>1, <1>2 DEF FailCleanup

\* Every step that is not a change of scope, and what that one does.
Prepares(a) == \E d \in tc_due : d.attempt = a /\ PrepareAttempt(d)
Launched(a) == \E d \in tc_due : d.attempt = a /\ Launch(d)
ScopeStep == \E m \in Messages : ApplyScopeChange(m)
SettleStep == \E a \in TaskAttempts : BeginSettle(a)

\* A message that is applied makes room for the next requirement version.
LEMMA NextVersion ==
    ASSUME TypedControl, NEW m \in Messages, ApplyScopeChange(m)
    PROVE  Task.req + 1 \in Versions
<1>1. m \notin AppliedChanges /\ AppliedChanges \subseteq Messages
  BY DEF ApplyScopeChange, SetMessage, AppliedChanges
<1>2. Cardinality(AppliedChanges) # Cardinality(Messages)
  BY <1>1, ControlAssumption, FS_Subset
<1>3. Cardinality(AppliedChanges) < Cardinality(Messages)
  BY <1>2, AppliedIsFinite, Bounds
<1> QED BY <1>3, AppliedIsFinite, Bounds DEF TypedControl, Versions

LEMMA TaskSteps ==
    ASSUME TypedControl, ControlNext
    PROVE  /\ tc_task' \in Tasks /\ TaskMoves
           /\ Unseen \/ SettleStep
           /\ tc_task'.req = Task.req \/ ScopeStep
<1>0. tc_task \in Tasks /\ Task = tc_task
  BY DEF TypedControl, Task
<1>1. ASSUME tc_task' = tc_task PROVE Touches
  BY <1>0, <1>1 DEF Touches, TaskMoves, Keeps, Unseen
<1>2. ASSUME NEW a \in TaskAttempts, ProcessEnds(a) \/ RecordReview(a) \/ SaveResult(a)
      PROVE  Touches
  BY <1>1, <1>2 DEF ProcessEnds, RecordReview, SaveResult
<1>17. ASSUME NEW d \in tc_due, PrepareAttempt(d) \/ Launch(d) \/ LaunchFails(d) PROVE Touches
  BY <1>1, <1>17 DEF PrepareAttempt, Launch, LaunchFails
<1>3. ASSUME NEW a \in TaskAttempts, ConsumeResult(a) PROVE Touches
  BY <1>3, Reducing DEF ConsumeResult
<1>4. ASSUME NEW a \in TaskAttempts, BeginSettle(a)
      PROVE  tc_task' \in Tasks /\ Keeps /\ tc_task'.req = Task.req /\ SettleStep
  BY <1>0, <1>4 DEF BeginSettle, Tasks, Keeps, SettleStep
<1>5. ASSUME RequestPauseAfterRun PROVE Touches
  <2> DEFINE u == [Task EXCEPT !.pause = TRUE]
  <2>1. u \in Tasks /\ u.state = Task.state /\ u.attempt = Task.attempt /\ u.last = Task.last
        /\ u.req = Task.req
    BY <1>0, TaskForms
  <2>2. Writes(u)
    BY <1>5 DEF RequestPauseAfterRun
  <2> HIDE DEF u
  <2> QED BY <2>1, <2>2, Writing DEF Touches, TaskMoves, Keeps, Unseen
<1>6. ASSUME EndSettle PROVE Touches
  <2>1. CASE Writes([Task EXCEPT !.state = "paused_after_run", !.attempt = 0, !.pause = FALSE])
    BY <2>1, Pausing
  <2>2. CASE tc_task' = [Task EXCEPT !.seen = FALSE]
    BY <1>0, <2>2 DEF Tasks, Touches, TaskMoves, Keeps, Unseen
  <2> QED BY <1>6, <2>1, <2>2 DEF EndSettle
<1>7. ASSUME Resume \/ Continue PROVE Touches
  <2>1. Begins(Task)
    BY <1>7 DEF Resume, Continue
  <2> QED BY <1>0, <2>1, Beginning DEF Touches, TaskMoves, Unseen
<1>8. ASSUME CrashAndRestart PROVE Touches
  BY <1>1, <1>8 DEF CrashAndRestart
<1>9. ASSUME NEW w \in Workers, Interrupt(w) PROVE Touches
  BY <1>9, Switching DEF Interrupt, Involved
<1>10. ASSUME NEW w \in Workers, ResumeCleanup(w) PROVE Touches
  <2>1. CASE Task.state = "interrupting"
    BY <1>1, <1>10, <2>1 DEF ResumeCleanup
  <2>2. CASE Task.state # "interrupting"
    BY <1>10, <2>2, Switching DEF ResumeCleanup, Involved
  <2> QED BY <2>1, <2>2
<1>11. ASSUME NEW w \in Workers,
              GraceEnds(w) \/ \E a \in TaskAttempts : DecideFeedForward(w, a)
       PROVE  Touches
  BY <1>1, <1>11 DEF GraceEnds, DecideFeedForward
<1>12. ASSUME NEW w \in Workers, Verify(w) PROVE Touches
  BY <1>1, <1>12, Failing DEF Verify
<1>13. ASSUME NEW w \in Workers, CompleteCleanup(w) PROVE Touches
  <2>1. CASE FailCleanup(w)
    BY <2>1, Failing
  <2>2. CASE ~FailCleanup(w)
    <3> DEFINE u == [Task EXCEPT !.state = "interrupted_needs_inspection", !.attempt = 0]
    <3>1. u \in Tasks /\ u.state = "interrupted_needs_inspection" /\ u.last = Task.last
          /\ u.req = Task.req
      BY <1>0 DEF Tasks, Owner, TaskStates
    <3>2. Writes(u)
      BY <1>13, <2>2 DEF CompleteCleanup
    <3> HIDE DEF u
    <3> QED BY <3>1, <3>2, Writing DEF Touches, TaskMoves, Leaves, Unseen, TaskStates, Involved
  <2> QED BY <2>1, <2>2
<1>14. ASSUME NEW w \in Workers, ApplyFeedForward(w) PROVE Touches
  <2>1. CASE Reduces(Of(w)) /\ Of(w) \in TaskAttempts
    BY <2>1, Reducing
  <2>2. CASE tc_task' = tc_task
    BY <1>1, <2>2
  <2>3. ~Free(w)
    BY <1>14 DEF ApplyFeedForward, At, Free
  <2> QED BY <1>14, <2>1, <2>2, <2>3 DEF ApplyFeedForward, TypedControl
<1>15. ASSUME NEW m \in Messages, ApplyScopeChange(m)
       PROVE  tc_task' \in Tasks /\ BeginsNew /\ Unseen /\ ScopeStep
              /\ tc_task'.req = Task.req + 1
  <2> DEFINE u == [Task EXCEPT !.req = @ + 1]
  <2>1. Begins(u)
    BY <1>15 DEF ApplyScopeChange
  <2>3. Task.req + 1 \in Versions
    BY <1>15, NextVersion
  <2>4. u \in Tasks /\ u.last = Task.last /\ u.req = Task.req + 1
    BY <1>0, <2>3 DEF Tasks
  <2> HIDE DEF u
  <2> QED BY <1>15, <2>1, <2>4, Beginning DEF ScopeStep, Unseen
<1>16. ASSUME NEW m \in Messages,
              MarkAcknowledged(m) \/ MarkFailed(m) \/ RetryFailed(m) \/ ApplyOperational(m)
              \/ \E realTime \in BOOLEAN : Deliver(m, realTime)
              \/ \E kind \in {"operational", "scope_change"} : Enqueue(m, kind)
       PROVE  Touches
  <2>1. tc_task' = tc_task
    BY <1>16, Zenon
       DEF MarkAcknowledged, MarkFailed, RetryFailed, ApplyOperational, Deliver, Enqueue, Moves
  <2> QED BY <1>1, <2>1
<1> QED BY <1>2, <1>3, <1>4, <1>5, <1>6, <1>7, <1>8, <1>9, <1>10, <1>11, <1>12, <1>13, <1>14,
           <1>15, <1>16, <1>17 DEF ControlNext, Touches, TaskMoves

LEMMA MessageSteps ==
    ASSUME TypedControl, ControlNext
    PROVE  /\ tc_msg' \in Posts
           /\ ScopeStep \/ AppliedChanges' = AppliedChanges
           /\ \A m \in Messages : ApplyScopeChange(m) => /\ AppliedChanges' = AppliedChanges \cup {m}
                                                          /\ m \notin AppliedChanges
<1>1. ASSUME NEW m \in Messages, NEW from, NEW to \in {"queued", "delivered", "acknowledged",
                                  "applied", "retry_safe", "dead_letter"}, SetMessage(m, from, to)
      PROVE  tc_msg' \in Posts
  BY <1>1, PostEdits DEF SetMessage, TypedControl
<1>2. ASSUME NEW m \in Messages, NEW from, NEW to, SetMessage(m, from, to),
             "applied" \notin from, to # "applied" \/ tc_msg[m].kind # "scope_change"
      PROVE  AppliedChanges' = AppliedChanges
  BY <1>2 DEF SetMessage, AppliedChanges, TypedControl, Posts
<1>3. ASSUME NEW m \in Messages, NEW kind \in {"operational", "scope_change"}, Enqueue(m, kind)
      PROVE  tc_msg' \in Posts /\ AppliedChanges' = AppliedChanges
  <2>1. tc_msg' \in Posts
    BY <1>3, PostEdits DEF Enqueue, TypedControl
  <2> QED BY <1>3, <2>1 DEF Enqueue, AppliedChanges, TypedControl, Posts
<1>4. ASSUME NEW m \in Messages, ApplyScopeChange(m)
      PROVE  /\ tc_msg' \in Posts /\ ScopeStep
             /\ AppliedChanges' = AppliedChanges \cup {m} /\ m \notin AppliedChanges
  <2>1. tc_msg' \in Posts
    BY <1>4, <1>1 DEF ApplyScopeChange
  <2> QED BY <1>4, <2>1 DEF ApplyScopeChange, ScopeStep, SetMessage, AppliedChanges, TypedControl, Posts
<1>5. ASSUME NEW m \in Messages,
             MarkAcknowledged(m) \/ MarkFailed(m) \/ RetryFailed(m) \/ ApplyOperational(m)
             \/ \E realTime \in BOOLEAN : Deliver(m, realTime)
      PROVE  tc_msg' \in Posts /\ AppliedChanges' = AppliedChanges
  <2>1. CASE MarkAcknowledged(m)
    BY <1>1, <1>2, <2>1 DEF MarkAcknowledged, Moves
  <2>2. CASE MarkFailed(m)
    BY <1>1, <1>2, <2>2 DEF MarkFailed, Moves
  <2>3. CASE RetryFailed(m)
    BY <1>1, <1>2, <2>3 DEF RetryFailed, Moves
  <2>4. CASE ApplyOperational(m)
    BY <1>1, <1>2, <2>4 DEF ApplyOperational, Moves
  <2>5. CASE \E realTime \in BOOLEAN : Deliver(m, realTime)
    BY <1>1, <1>2, <2>5 DEF Deliver, Moves
  <2> QED BY <1>5, <2>1, <2>2, <2>3, <2>4, <2>5
<1>6. ASSUME tc_msg' = tc_msg PROVE tc_msg' \in Posts /\ AppliedChanges' = AppliedChanges
  BY <1>6 DEF AppliedChanges, TypedControl
<1>7. ASSUME tc_msg' # tc_msg
      PROVE  \E m \in Messages :
                \/ MarkAcknowledged(m) \/ MarkFailed(m) \/ RetryFailed(m) \/ ApplyOperational(m)
                \/ \E realTime \in BOOLEAN : Deliver(m, realTime)
                \/ \E kind \in {"operational", "scope_change"} : Enqueue(m, kind)
                \/ ApplyScopeChange(m)
  BY <1>7, Zenon
     DEF ControlNext, PrepareAttempt, Launch, LaunchFails, ProcessEnds, RecordReview, SaveResult, ConsumeResult, BeginSettle,
         RequestPauseAfterRun, EndSettle, Resume, Continue, CrashAndRestart, Interrupt,
         ResumeCleanup, GraceEnds, Verify, CompleteCleanup, FailCleanup, ApplyFeedForward,
         DecideFeedForward
<1>8. \A m \in Messages : ApplyScopeChange(m) => /\ AppliedChanges' = AppliedChanges \cup {m}
                                                 /\ m \notin AppliedChanges
  BY <1>4
<1> QED BY <1>3, <1>4, <1>5, <1>6, <1>7, <1>8
-----------------------------------------------------------------------------
(* The attempts and the operations under way keep their types. *)

LEMMA WorkEdits ==
    ASSUME TypedControl, NEW w \in Workers, NEW j \in Jobs, tc_ops' = Working(w, j)
    PROVE  /\ tc_ops' \in Operations /\ tc_ops'.settle = tc_ops.settle
           /\ tc_ops'.work[w] = j
           /\ \A v \in Workers : v # w => tc_ops'.work[v] = tc_ops.work[v]
BY DEF Working, TypedControl, Operations

\* A caller that works names an attempt; what each caller does next.
WorkKeeps(w) == tc_ops'.work[w] = tc_ops.work[w] \/ tc_ops'.work[w].at = "none"

LEMMA OperationSteps ==
    ASSUME TypedControl, ControlNext
    PROVE  /\ tc_ops' \in Operations
           /\ \A w \in Workers :
                 \/ WorkKeeps(w)
                 \/ Interrupt(w) \/ ResumeCleanup(w) \/ GraceEnds(w) \/ Verify(w)
                 \/ \E a \in TaskAttempts : DecideFeedForward(w, a)
           /\ \/ tc_ops'.settle = tc_ops.settle \/ tc_ops'.settle.attempt = 0
              \/ SettleStep
<1>1. TypedControl
  OBVIOUS
<1> DEFINE Conclusion ==
        /\ tc_ops' \in Operations
        /\ \A w \in Workers :
              \/ WorkKeeps(w)
              \/ Interrupt(w) \/ ResumeCleanup(w) \/ GraceEnds(w) \/ Verify(w)
              \/ \E a \in TaskAttempts : DecideFeedForward(w, a)
        /\ \/ tc_ops'.settle = tc_ops.settle \/ tc_ops'.settle.attempt = 0
           \/ SettleStep
<1>2. ASSUME tc_ops' = tc_ops PROVE Conclusion
  BY <1>2 DEF TypedControl, WorkKeeps
<1>3. ASSUME NEW a \in TaskAttempts, BeginSettle(a) PROVE Conclusion
  <2> DEFINE op == [attempt |-> a, terminal |-> tc_att[a].row = "completed"]
  <2>1. op \in Settlements
    BY DEF Settlements, Owner
  <2>2. tc_ops' = [tc_ops EXCEPT !.settle = op]
    BY <1>3 DEF BeginSettle
  <2> HIDE DEF op
  <2> QED BY <1>3, <2>1, <2>2 DEF SettleStep, WorkKeeps, TypedControl, Operations
<1>4. ASSUME EndSettle PROVE Conclusion
  BY <1>4 DEF EndSettle, TypedControl, Operations, Settlements, Owner, WorkKeeps
<1>5. ASSUME CrashAndRestart PROVE Conclusion
  <2>1. Idle \in Jobs
    BY DEF Idle, Jobs, Owner
  <2>2. [attempt |-> 0, terminal |-> FALSE] \in Settlements
    BY DEF Settlements, Owner
  <2>3. tc_ops' \in Operations /\ tc_ops'.settle.attempt = 0
        /\ \A w \in Workers : tc_ops'.work[w] = Idle
    BY <1>5, <2>1, <2>2 DEF CrashAndRestart, Operations
  <2> QED BY <2>3 DEF WorkKeeps, Idle
<1>6. ASSUME NEW w \in Workers, NEW j \in Jobs, tc_ops' = Working(w, j),
             \/ j.at = "none"
             \/ Interrupt(w) \/ ResumeCleanup(w) \/ GraceEnds(w) \/ Verify(w)
             \/ \E a \in TaskAttempts : DecideFeedForward(w, a)
      PROVE  Conclusion
  BY <1>6, WorkEdits DEF WorkKeeps
<1> HIDE DEF Conclusion
<1>7. ASSUME NEW w \in Workers, Interrupt(w) PROVE Conclusion
  <2>1. Task.attempt \in Owner
    BY Fields
  <2>2. [at |-> "stopping", attempt |-> Task.attempt] \in Jobs
    BY <2>1 DEF Jobs
  <2> QED BY <1>6, <1>7, <2>2 DEF Interrupt
<1>8. ASSUME NEW w \in Workers, ResumeCleanup(w) PROVE Conclusion
  <2>1. Task.attempt \in Owner
    BY Fields
  <2>2. [at |-> "stopping", attempt |-> Task.attempt] \in Jobs
    BY <2>1 DEF Jobs
  <2> QED BY <1>6, <1>8, <2>2 DEF ResumeCleanup
<1>9. ASSUME NEW w \in Workers, GraceEnds(w) PROVE Conclusion
  <2>1. \A at \in {"verified", "forcing"} : [at |-> at, attempt |-> Of(w)] \in Jobs
    BY Fields DEF Jobs
  <2> QED BY <1>6, <1>9, <2>1 DEF GraceEnds
<1>10. Idle \in Jobs /\ Idle.at = "none"
  BY DEF Idle, Jobs, Owner
<1>11. ASSUME NEW w \in Workers, FailCleanup(w) PROVE Conclusion
  BY <1>6, <1>10, <1>11 DEF FailCleanup
<1>12. ASSUME NEW w \in Workers, Verify(w) PROVE Conclusion
  <2>1. [at |-> "verified", attempt |-> Of(w)] \in Jobs
    BY Fields DEF Jobs
  <2> QED BY <1>6, <1>11, <1>12, <2>1 DEF Verify
<1>13. ASSUME NEW w \in Workers, CompleteCleanup(w) \/ ApplyFeedForward(w) PROVE Conclusion
  BY <1>6, <1>10, <1>11, <1>13 DEF CompleteCleanup, ApplyFeedForward
<1>14. ASSUME NEW w \in Workers, NEW a \in TaskAttempts, DecideFeedForward(w, a)
       PROVE  Conclusion
  <2>1. [at |-> "feeding", attempt |-> a] \in Jobs
    BY DEF Jobs, Owner
  <2>2. tc_ops' = Working(w, [at |-> "feeding", attempt |-> a])
    BY <1>14 DEF DecideFeedForward
  <2> QED BY <1>6, <1>14, <2>1, <2>2
<1>15. ASSUME tc_ops' # tc_ops
       PROVE  \/ \E a \in TaskAttempts : BeginSettle(a)
              \/ EndSettle \/ CrashAndRestart
              \/ \E w \in Workers : \/ Interrupt(w) \/ ResumeCleanup(w) \/ GraceEnds(w)
                                    \/ Verify(w) \/ CompleteCleanup(w) \/ ApplyFeedForward(w)
                                    \/ \E a \in TaskAttempts : DecideFeedForward(w, a)
  BY <1>15, Zenon
     DEF ControlNext, PrepareAttempt, Launch, LaunchFails, ProcessEnds, RecordReview, SaveResult, ConsumeResult,
         RequestPauseAfterRun, Resume, Continue, MarkAcknowledged, MarkFailed, RetryFailed,
         ApplyOperational, Deliver, Enqueue, Moves, ApplyScopeChange
<1>16. Conclusion
  BY <1>2, <1>3, <1>4, <1>5, <1>7, <1>8, <1>9, <1>12, <1>13, <1>14, <1>15
<1> QED BY <1>16 DEF Conclusion

\* An attempt that is past: it is not the one the task is running.
Past(a) == a =< Task.last /\ ~(Task.state = "running" /\ Task.attempt = a)

LEMMA PastStaysPast ==
    ASSUME TypedControl, ControlNext, NEW a \in TaskAttempts, Past(a)
    PROVE  Past(a)'
<1>1. TaskMoves /\ tc_task' \in Tasks
  BY TaskSteps
<1>2. \A b \in TaskAttempts : b \in Nat
  BY Bounds
<1>3. Task.last \in Nat /\ Task'.last \in Nat /\ Task' = tc_task'
  BY <1>1, <1>2, Fields DEF Tasks, Task
<1> QED BY <1>1, <1>2, <1>3
        DEF TaskMoves, Keeps, BeginsNew, Leaves, Switches, Past, TaskStates, Involved

\* What a step may do to the row of an attempt.
Cleaning(a) ==
    LET c == tc_att[a].cleanup  d == tc_att'[a].cleanup IN
    \/ d = c
    \/ d = "intent" /\ a = Task.attempt /\ \E w \in Workers : Interrupt(w) \/ ResumeCleanup(w)
    \/ d = "failed" /\ c # "none" /\ c # "completed"
    \/ d = "completed" /\ \E w \in Workers : At(w, "verified") /\ Of(w) = a /\ c # "none"
RowStep(a) ==
    /\ tc_att'[a].proc = tc_att[a].proc \/ Launched(a) \/ ~Alive(a)'
    /\ tc_att'[a].row = tc_att[a].row \/ Prepares(a) \/ Launched(a) \/ SaveResult(a)
    /\ tc_att'[a].req = tc_att[a].req \/ Prepares(a)
    /\ tc_att'[a].late = tc_att[a].late \/ Launched(a)
    /\ tc_att'[a].result = tc_att[a].result \/ SaveResult(a) \/ tc_att[a].result = "durable"
    /\ Cleaning(a)

LEMMA AttemptSteps ==
    ASSUME TypedControl, ControlNext
    PROVE  tc_att' \in AttemptRows /\ \A a \in TaskAttempts : RowStep(a)
<1> DEFINE Conclusion == tc_att' \in AttemptRows /\ \A a \in TaskAttempts : RowStep(a)
<1>0. tc_att \in AttemptRows /\ \A w \in Workers : ~Free(w) => Of(w) \in TaskAttempts
  BY DEF TypedControl
<1>1. ASSUME tc_att' = tc_att PROVE Conclusion
  BY <1>0, <1>1 DEF RowStep, Cleaning
<1>2. ASSUME NEW a \in TaskAttempts, NEW d \in tc_due, d.attempt = a, PrepareAttempt(d)
      PROVE  Conclusion
  <2>1. d.req \in Versions
    BY DEF TypedControl, Launches
  <2>2. tc_att' \in AttemptRows
    BY <1>0, <1>2, <2>1, RowEdits DEF PrepareAttempt
  <2>3. /\ \A b \in TaskAttempts : b # a => tc_att'[b] = tc_att[b]
        /\ tc_att'[a].result = tc_att[a].result /\ tc_att'[a].cleanup = tc_att[a].cleanup
        /\ tc_att'[a].proc = tc_att[a].proc /\ tc_att'[a].late = tc_att[a].late
    BY <1>0, <1>2 DEF PrepareAttempt, AttemptRows, Rows
  <2> QED BY <1>2, <2>2, <2>3 DEF RowStep, Cleaning, Prepares
<1>16. ASSUME NEW a \in TaskAttempts, NEW d \in tc_due, d.attempt = a, Launch(d)
       PROVE  Conclusion
  <2> DEFINE l == FoundClean(a)
  <2>1. l \in BOOLEAN
    BY DEF FoundClean
  <2>2. tc_att' = [tc_att EXCEPT ![a] = [@ EXCEPT !.row = "active", !.proc = "alive", !.late = l]]
    BY <1>16 DEF Launch
  <2> HIDE DEF l
  <2>3. tc_att' \in AttemptRows
    BY <1>0, <2>1, <2>2, RowEdits
  <2>4. /\ \A b \in TaskAttempts : b # a => tc_att'[b] = tc_att[b]
        /\ tc_att'[a].result = tc_att[a].result /\ tc_att'[a].cleanup = tc_att[a].cleanup
        /\ tc_att'[a].req = tc_att[a].req
    BY <1>0, <2>1, <2>2 DEF AttemptRows, Rows
  <2> QED BY <1>16, <2>3, <2>4 DEF RowStep, Cleaning, Launched
<1>3. ASSUME NEW a \in TaskAttempts, ProcessEnds(a) PROVE Conclusion
  <2>1. tc_att' \in AttemptRows
    BY <1>0, <1>3, RowEdits DEF ProcessEnds
  <2> QED BY <1>0, <1>3, <2>1 DEF ProcessEnds, AttemptRows, Rows, RowStep, Cleaning, Alive
<1>4. ASSUME NEW a \in TaskAttempts, SaveResult(a) PROVE Conclusion
  <2>1. tc_att' \in AttemptRows
    BY <1>0, <1>4, RowEdits DEF SaveResult
  <2>2. /\ \A b \in TaskAttempts : b # a => tc_att'[b] = tc_att[b]
        /\ tc_att'[a].proc = tc_att[a].proc /\ tc_att'[a].cleanup = tc_att[a].cleanup
        /\ tc_att'[a].req = tc_att[a].req /\ tc_att'[a].late = tc_att[a].late
    BY <1>0, <1>4 DEF SaveResult, AttemptRows, Rows
  <2> QED BY <1>4, <2>1, <2>2 DEF RowStep, Cleaning
<1>5. ASSUME NEW a \in TaskAttempts, tc_att[a].result = "durable",
             tc_att' = [tc_att EXCEPT ![a].result = "consumed"]
      PROVE  Conclusion
  <2>1. tc_att' \in AttemptRows
    BY <1>0, <1>5, RowEdits
  <2> QED BY <1>0, <1>5, <2>1 DEF AttemptRows, Rows, RowStep, Cleaning
<1>6. ASSUME NEW a \in TaskAttempts, a = Task.attempt,
             tc_att' = [tc_att EXCEPT ![a].cleanup = "intent"],
             \E w \in Workers : Interrupt(w) \/ ResumeCleanup(w)
      PROVE  Conclusion
  <2>1. tc_att' \in AttemptRows
    BY <1>0, <1>6, RowEdits
  <2>2. \A b \in TaskAttempts : tc_att'[b].cleanup = IF b = a THEN "intent" ELSE tc_att[b].cleanup
    BY <1>0, <1>6 DEF AttemptRows, Rows
  <2>3. \A b \in TaskAttempts : Cleaning(b)
    BY <1>6, <2>2 DEF Cleaning
  <2> QED BY <1>0, <1>6, <2>1, <2>3 DEF AttemptRows, Rows, RowStep
<1>7. ASSUME NEW w \in Workers, Interrupt(w) PROVE Conclusion
  <2>1. Task.attempt \in TaskAttempts
    BY <1>7 DEF Interrupt, TypedControl, Involved
  <2> QED BY <1>6, <1>7, <2>1 DEF Interrupt
<1>8. ASSUME NEW w \in Workers, ResumeCleanup(w) PROVE Conclusion
  <2>1. Task.attempt \in TaskAttempts
    BY <1>8 DEF ResumeCleanup, TypedControl, Involved
  <2> QED BY <1>6, <1>8, <2>1 DEF ResumeCleanup, Reopened
<1>9. ASSUME NEW w \in Workers, ~Free(w), FailCleanup(w) PROVE Conclusion
  <2> DEFINE a == Of(w)
             d == IF tc_att[a].cleanup = "intent" THEN "failed" ELSE tc_att[a].cleanup
  <2> SUFFICES ASSUME tc_att' # tc_att PROVE Conclusion
    BY <1>1
  <2>1. a \in TaskAttempts /\ tc_att' = [tc_att EXCEPT ![a].cleanup = d]
    BY <1>0, <1>9 DEF FailCleanup
  <2>2. tc_att' \in AttemptRows
    BY <1>0, <1>9, <2>1, RowEdits DEF FailCleanup
  <2> HIDE DEF a
  <2> QED BY <1>0, <2>1, <2>2 DEF AttemptRows, Rows, RowStep, Cleaning
<1>10. ASSUME NEW w \in Workers, Verify(w) PROVE Conclusion
  <2>1. ~Free(w)
    BY <1>10 DEF Verify, At, Free
  <2> QED BY <1>1, <1>9, <1>10, <2>1 DEF Verify
<1>11. ASSUME NEW w \in Workers, CompleteCleanup(w) PROVE Conclusion
  <2>1. ~Free(w) /\ At(w, "verified")
    BY <1>11 DEF CompleteCleanup, At, Free
  <2>2. CASE FailCleanup(w)
    BY <1>9, <2>1, <2>2
  <2>3. CASE ~FailCleanup(w)
    <3> DEFINE a == Of(w)
    <3>1. /\ a \in TaskAttempts /\ tc_att[a].cleanup = "intent"
          /\ tc_att' = [tc_att EXCEPT ![a].cleanup = "completed"]
      BY <1>0, <1>11, <2>1, <2>3 DEF CompleteCleanup
    <3>2. tc_att' \in AttemptRows
      BY <1>0, <3>1, RowEdits
    <3>3. \E v \in Workers : At(v, "verified") /\ Of(v) = a
      BY <2>1
    <3> HIDE DEF a
    <3> QED BY <1>0, <3>1, <3>2, <3>3 DEF AttemptRows, Rows, RowStep, Cleaning
  <2> QED BY <2>2, <2>3
<1>12. ASSUME NEW w \in Workers, ApplyFeedForward(w) PROVE Conclusion
  <2>1. Of(w) \in TaskAttempts
    BY <1>0, <1>12 DEF ApplyFeedForward, At, Free
  <2> QED BY <1>1, <1>5, <1>12, <2>1 DEF ApplyFeedForward, NotConsumed
<1>13. ASSUME NEW a \in TaskAttempts, ConsumeResult(a) PROVE Conclusion
  BY <1>5, <1>13 DEF ConsumeResult
<1>14. ASSUME tc_att' # tc_att
       PROVE  \/ \E d \in tc_due : PrepareAttempt(d) \/ Launch(d)
              \/ \E a \in TaskAttempts : ProcessEnds(a) \/ SaveResult(a) \/ ConsumeResult(a)
              \/ \E w \in Workers : \/ Interrupt(w) \/ ResumeCleanup(w) \/ Verify(w)
                                    \/ CompleteCleanup(w) \/ ApplyFeedForward(w)
  BY <1>14, Zenon
     DEF ControlNext, LaunchFails, RecordReview, BeginSettle, EndSettle, CrashAndRestart,
         RequestPauseAfterRun, Resume, Continue, GraceEnds, DecideFeedForward, MarkAcknowledged, MarkFailed, RetryFailed,
         ApplyOperational, Deliver, Enqueue, Moves, ApplyScopeChange
<1> HIDE DEF Conclusion
<1>17. \A d \in tc_due : d.attempt \in TaskAttempts
  BY DEF TypedControl, Launches
<1>15. Conclusion
  BY <1>1, <1>2, <1>3, <1>4, <1>7, <1>8, <1>10, <1>11, <1>12, <1>13, <1>14, <1>16, <1>17
<1> QED BY <1>15 DEF Conclusion

LEMMA ReviewSteps ==
    ASSUME TypedControl, ControlNext
    PROVE  /\ tc_rev' \in SUBSET (TaskAttempts \X BOOLEAN)
           /\ \A r \in tc_rev' :
                 \/ r \in tc_rev /\ ~ScopeStep
                 \/ \E a \in TaskAttempts : RecordReview(a) /\ r = <<a, TRUE>>
                 \/ ~r[2] /\ \E q \in tc_rev : q[1] = r[1]
<1>0. tc_rev \in SUBSET (TaskAttempts \X BOOLEAN)
  BY DEF TypedControl
<1>1. ASSUME NEW a \in TaskAttempts, RecordReview(a)
      PROVE  /\ tc_rev' \in SUBSET (TaskAttempts \X BOOLEAN)
             /\ \A r \in tc_rev' : r \in tc_rev \/ r = <<a, TRUE>>
  <2>1. tc_rev' = tc_rev \cup {<<a, TRUE>>} /\ <<a, TRUE>> \in TaskAttempts \X BOOLEAN
    BY <1>1, Zenon DEF RecordReview
  <2> QED BY <1>0, <2>1, Zenon
<1>2. ASSUME NEW m \in Messages, ApplyScopeChange(m)
      PROVE  /\ tc_rev' \in SUBSET (TaskAttempts \X BOOLEAN)
             /\ \A r \in tc_rev' : ~r[2] /\ \E q \in tc_rev : q[1] = r[1]
  <2>1. \A q \in tc_rev : q[1] \in TaskAttempts /\ <<q[1], FALSE>> \in TaskAttempts \X BOOLEAN
    BY <1>0
  <2>2. tc_rev' = {<<q[1], FALSE>> : q \in tc_rev}
    BY <1>2 DEF ApplyScopeChange, Invalidated
  <2>3. \A r \in tc_rev' : \E q \in tc_rev : r = <<q[1], FALSE>>
    BY <2>2, Zenon
  <2>4. tc_rev' \in SUBSET (TaskAttempts \X BOOLEAN)
    BY <2>1, <2>3, Zenon
  <2>5. \A q \in tc_rev : <<q[1], FALSE>>[1] = q[1] /\ <<q[1], FALSE>>[2] = FALSE
    OBVIOUS
  <2> QED BY <2>3, <2>4, <2>5, Zenon
<1>3. ASSUME tc_rev' # tc_rev
      PROVE  (\E a \in TaskAttempts : RecordReview(a)) \/ ScopeStep
  BY <1>3, Zenon
     DEF ControlNext, PrepareAttempt, Launch, LaunchFails, ProcessEnds, SaveResult, ConsumeResult, BeginSettle,
         RequestPauseAfterRun, EndSettle, Resume, Continue, CrashAndRestart, Interrupt,
         ResumeCleanup, GraceEnds, Verify, CompleteCleanup, FailCleanup, ApplyFeedForward,
         DecideFeedForward, MarkAcknowledged, MarkFailed, RetryFailed,
         ApplyOperational, Deliver, Enqueue, Moves, ScopeStep
<1>4. CASE ScopeStep
  BY <1>2, <1>4 DEF ScopeStep
<1>5. CASE ~ScopeStep
  BY <1>0, <1>1, <1>3, <1>5
<1> QED BY <1>4, <1>5

\* A drive's launch is that of an attempt that has begun, with its requirements.
LEMMA DueSteps ==
    ASSUME TypedControl, ControlNext
    PROVE  tc_due' \in SUBSET Launches
<1>0. tc_due \in SUBSET Launches /\ tc_task \in Tasks /\ Task = tc_task
  BY DEF TypedControl, Task
<1>1. ASSUME NEW t \in Tasks, Begins(t) PROVE tc_due' \in SUBSET Launches
  <2>1. Unused # {} /\ tc_due' = tc_due \cup {[attempt |-> Fresh, req |-> t.req]}
    BY <1>1 DEF Begins
  <2>2. Fresh \in TaskAttempts /\ t.req \in Versions
    BY <2>1, FreshIsNew DEF Tasks
  <2> QED BY <1>0, <2>1, <2>2 DEF Launches
<1>2. ASSUME NEW m \in Messages, ApplyScopeChange(m) PROVE tc_due' \in SUBSET Launches
  <2> DEFINE u == [Task EXCEPT !.req = @ + 1]
  <2>1. Begins(u)
    BY <1>2 DEF ApplyScopeChange
  <2>2. Task.req + 1 \in Versions
    BY <1>2, NextVersion
  <2>3. u \in Tasks
    BY <1>0, <2>2 DEF Tasks
  <2> HIDE DEF u
  <2> QED BY <1>1, <2>1, <2>3
<1>3. ASSUME NEW d \in tc_due, PrepareAttempt(d) \/ Launch(d) \/ LaunchFails(d)
      PROVE  tc_due' \subseteq tc_due
  BY <1>3 DEF PrepareAttempt, Launch, LaunchFails
<1>4. ASSUME CrashAndRestart PROVE tc_due' = {}
  BY <1>4 DEF CrashAndRestart
<1>5. ASSUME ~(tc_due' \subseteq tc_due)
      PROVE  Begins(Task) \/ \E m \in Messages : ApplyScopeChange(m)
  BY <1>3, <1>4, <1>5, Zenon
     DEF ControlNext, ProcessEnds, RecordReview, SaveResult, ConsumeResult, Reduces, BeginSettle,
         RequestPauseAfterRun, EndSettle, Resume, Continue, Interrupt,
         ResumeCleanup, GraceEnds, Verify, CompleteCleanup, FailCleanup, ApplyFeedForward,
         DecideFeedForward, MarkAcknowledged, MarkFailed, RetryFailed,
         ApplyOperational, Deliver, Enqueue, Moves
<1> QED BY <1>0, <1>1, <1>2, <1>5

LEMMA TypedStep == TypedControl /\ ControlNext => TypedControl'
<1> SUFFICES ASSUME TypedControl, ControlNext PROVE TypedControl'
  OBVIOUS
<1>1. tc_task' \in Tasks /\ tc_att' \in AttemptRows /\ tc_msg' \in Posts
      /\ tc_rev' \in SUBSET (TaskAttempts \X BOOLEAN) /\ tc_ops' \in Operations
      /\ tc_due' \in SUBSET Launches
  BY TaskSteps, AttemptSteps, MessageSteps, ReviewSteps, OperationSteps, DueSteps
<1>2. \A a \in TaskAttempts : a \in Nat
  BY Bounds
<1>3. (Task.state \in Involved => Task.attempt \in TaskAttempts /\ Task.attempt =< Task.last)'
  <2>1. TaskMoves
    BY TaskSteps
  <2>2. Task' = tc_task' /\ tc_task'.last \in TaskAttempts
    BY <1>1 DEF Tasks, Task
  <2> QED BY <1>2, <2>1, <2>2
          DEF TaskMoves, Keeps, BeginsNew, Leaves, Switches, TypedControl
<1>4. ASSUME NEW w \in Workers, (~Free(w))' PROVE Of(w)' \in TaskAttempts
  <2>1. Task.state \in Involved => Task.attempt \in TaskAttempts
    BY DEF TypedControl
  <2>2. CASE WorkKeeps(w)
    BY <1>4, <2>2 DEF WorkKeeps, TypedControl, Free, Of
  <2>3. CASE Interrupt(w) \/ ResumeCleanup(w)
    <3>1. Task.attempt \in TaskAttempts
      BY <2>1, <2>3 DEF Interrupt, ResumeCleanup, Involved
    <3>2. [at |-> "stopping", attempt |-> Task.attempt] \in Jobs
      BY <3>1 DEF Jobs, Owner
    <3>3. tc_ops'.work[w] = [at |-> "stopping", attempt |-> Task.attempt]
      BY <2>3, <3>2, WorkEdits DEF Interrupt, ResumeCleanup
    <3> QED BY <3>1, <3>3 DEF Of
  <2>4. CASE GraceEnds(w) \/ Verify(w)
    <3>1. Of(w) \in TaskAttempts
      BY <2>4 DEF GraceEnds, Verify, TypedControl, At, Free
    <3>2. Idle \in Jobs /\ Idle.at = "none"
      BY DEF Idle, Jobs, Owner
    <3>3. \A at \in {"verified", "forcing"} : [at |-> at, attempt |-> Of(w)] \in Jobs
      BY <3>1 DEF Jobs, Owner
    <3>4. tc_ops'.work[w].at = "none" \/ tc_ops'.work[w].attempt = Of(w)
      BY <2>4, <3>2, <3>3, WorkEdits DEF GraceEnds, Verify, FailCleanup
    <3> QED BY <1>4, <3>1, <3>4 DEF Of, Free
  <2>5. ASSUME NEW a \in TaskAttempts, DecideFeedForward(w, a) PROVE Of(w)' \in TaskAttempts
    <3>1. [at |-> "feeding", attempt |-> a] \in Jobs
      BY DEF Jobs, Owner
    <3>2. tc_ops'.work[w] = [at |-> "feeding", attempt |-> a]
      BY <2>5, <3>1, WorkEdits DEF DecideFeedForward
    <3> QED BY <3>2 DEF Of
  <2> QED BY <2>2, <2>3, <2>4, <2>5, OperationSteps
<1>5. (Task.req = 1 + Cardinality(AppliedChanges))'
  <2>1. CASE ScopeStep
    <3>1. PICK m \in Messages : ApplyScopeChange(m)
      BY <2>1 DEF ScopeStep
    <3>2. AppliedChanges' = AppliedChanges \cup {m} /\ m \notin AppliedChanges
      BY <3>1, MessageSteps
    <3>3. Cardinality(AppliedChanges') = Cardinality(AppliedChanges) + 1
      BY <3>2, AppliedIsFinite, FS_AddElement
    <3>4. tc_task'.req = Task.req + 1
      <4> DEFINE u == [Task EXCEPT !.req = @ + 1]
      <4>1. Begins(u)
        BY <3>1 DEF ApplyScopeChange
      <4>2. u.req = Task.req + 1
        BY DEF TypedControl, Tasks, Task
      <4>3. tc_task'.req = u.req
        <5> HIDE DEF u
        <5> QED BY <4>1 DEF Begins, Writes
      <4> QED BY <4>2, <4>3
    <3> QED BY <3>3, <3>4, AppliedIsFinite DEF TypedControl, Task
  <2>2. CASE ~ScopeStep
    BY <2>2, TaskSteps, MessageSteps DEF TypedControl, Task
  <2> QED BY <2>1, <2>2
<1> QED BY <1>1, <1>3, <1>4, <1>5 DEF TypedControl
-----------------------------------------------------------------------------
(* The inductive invariant.                                                      *)

\* An attempt with a cleanup, or that a caller is cleaning up, is past, and once a
\* caller has verified its tree, or the cleanup is complete, a process of it that is
\* alive has been spawned since.
CleanupInv ==
    /\ \A a \in TaskAttempts :
          /\ tc_att[a].cleanup # "none" => Past(a)
          /\ FoundClean(a) /\ Alive(a) => tc_att[a].late
    /\ \A w \in Workers :
          tc_ops.work[w].at \in {"stopping", "forcing", "verified"} => Past(Of(w))

\* A review is that of an attempt that was launched: its row, with the requirement
\* version it has seen, is not written again.
ReviewInv ==
    /\ \A r \in tc_rev : tc_att[r[1]].row # "none"
    /\ ReviewsMatchRequirements

\* A result is that of a run that is over, and stays over; a settlement that still
\* sees the row it has read sees the attempt it waits for, running, with the pause.
Settled(op) == op.attempt # 0 => /\ op.terminal => tc_att[op.attempt].row = "completed"
                                 /\ Task.seen => /\ Task.state = "running" /\ Task.pause
                                                 /\ Task.attempt = op.attempt
SettlementInv ==
    /\ \A a \in TaskAttempts : /\ tc_att[a].result # "none" => tc_att[a].row = "completed"
                               /\ tc_att[a].row = "completed" => ~Alive(a)
    /\ Settled(tc_ops.settle)

ControlInv == TypedControl /\ CleanupInv /\ ReviewInv /\ SettlementInv

LEMMA ControlInitially == ControlInit => ControlInv
<1> SUFFICES ASSUME ControlInit PROVE ControlInv
  OBVIOUS
<1> USE DEF ControlInit
<1>1. TypedControl
  <2>1. AppliedChanges = {}
    BY DEF AppliedChanges
  <2>2. 1 \in Versions
    BY Bounds DEF Versions
  <2>3. tc_task \in Tasks /\ Task.attempt = 1 /\ Task.last = 1 /\ Task.req = 1
    BY <2>2, Bounds DEF Tasks, Task, Owner, TaskStates, Involved
  <2>4. tc_att \in AttemptRows
    <3>1. 0 \in 0 .. Cardinality(Messages) + 1
      BY Bounds
    <3> QED BY <3>1 DEF AttemptRows, Rows
  <2>5. tc_msg \in Posts /\ tc_rev \in SUBSET (TaskAttempts \X BOOLEAN)
    BY DEF Posts
  <2>6. tc_ops \in Operations /\ \A w \in Workers : Free(w)
    BY DEF Operations, Settlements, Jobs, Owner, Idle, Free
  <2>7. tc_due \in SUBSET Launches
    BY <2>2, Bounds DEF Launches
  <2> QED BY <2>1, <2>3, <2>4, <2>5, <2>6, <2>7, Bounds, FS_EmptySet DEF TypedControl
<1>2. CleanupInv /\ ReviewInv /\ SettlementInv
  BY DEF CleanupInv, ReviewInv, SettlementInv, Settled, ReviewsMatchRequirements, At, Alive, Idle
<1> QED BY <1>1, <1>2 DEF ControlInv

\* What has been found clean stays so but for a launch that was under way.
LEMMA CleanStaysClean ==
    ASSUME ControlInv, ControlNext, NEW a \in TaskAttempts, FoundClean(a)
    PROVE  Alive(a)' => tc_att'[a].late
<1>0. TypedControl /\ RowStep(a) /\ (Alive(a) => tc_att[a].late)
  BY AttemptSteps DEF ControlInv, CleanupInv
<1>1. ASSUME NEW d \in tc_due, d.attempt = a, Launch(d) PROVE tc_att'[a].late
  BY <1>0, <1>1, Zenon DEF Launch, TypedControl, AttemptRows, Rows
<1>2. CASE Launched(a)
  BY <1>1, <1>2 DEF Launched
<1>3. CASE ~Launched(a)
  BY <1>0, <1>3 DEF RowStep, Alive
<1> QED BY <1>2, <1>3

LEMMA CleanupStep == ControlInv /\ ControlNext => CleanupInv'
<1> SUFFICES ASSUME ControlInv, ControlNext PROVE CleanupInv'
  OBVIOUS
<1>0. TypedControl /\ TypedControl' /\ CleanupInv
  BY TypedStep DEF ControlInv
\* An interruption begins the cleanup of the attempt that it ends.
<1>1. ASSUME NEW w \in Workers, Interrupt(w) \/ ResumeCleanup(w),
             NEW a \in TaskAttempts, a = Task.attempt
      PROVE  Past(a)'
  <2>1. Task.state \in Involved /\ a =< Task.last
    BY <1>0, <1>1 DEF Interrupt, ResumeCleanup, TypedControl, Involved
  <2>2. Writes([Task EXCEPT !.state = "interrupting"]) \/ tc_task' = tc_task
    BY <1>1 DEF Interrupt, ResumeCleanup
  <2>3. tc_task'.state = "interrupting" /\ tc_task'.last = Task.last
    BY <1>0, <1>1, <2>1, <2>2, Switching DEF Interrupt, ResumeCleanup, Switches, Task
  <2> QED BY <2>1, <2>3 DEF Past, Task
<1>2. ASSUME NEW a \in TaskAttempts, tc_att'[a].cleanup # "none" PROVE Past(a)'
  <2>1. Cleaning(a)
    BY <1>0, AttemptSteps DEF RowStep
  <2>2. tc_att[a].cleanup # "none" => Past(a)'
    BY <1>0, PastStaysPast DEF CleanupInv
  <2> QED BY <1>1, <1>2, <2>1, <2>2 DEF Cleaning
\* Where the jobs of the callers come from.
<1>3. ASSUME NEW w \in Workers, NEW a \in TaskAttempts, a = tc_ops'.work[w].attempt,
             tc_ops'.work[w].at \in {"stopping", "forcing", "verified"}
      PROVE  /\ Past(a)'
             /\ tc_ops'.work[w].at = "verified" => FoundClean(a) \/ ~Alive(a)'
  <2>1. Past(a) => Past(a)'
    BY <1>0, PastStaysPast
  <2>2. tc_ops.work[w].at \in {"stopping", "forcing", "verified"} => Past(Of(w))
    BY <1>0 DEF CleanupInv
  <2>3. CASE WorkKeeps(w)
    BY <1>0, <1>3, <2>1, <2>2, <2>3 DEF WorkKeeps, FoundClean, Of, At
  <2>4. CASE Interrupt(w) \/ ResumeCleanup(w)
    <3>1. Task.attempt \in Owner
      BY <1>0, Fields
    <3>2. [at |-> "stopping", attempt |-> Task.attempt] \in Jobs
      BY <3>1 DEF Jobs
    <3>3. tc_ops'.work[w] = [at |-> "stopping", attempt |-> Task.attempt]
      BY <1>0, <2>4, <3>2, WorkEdits DEF Interrupt, ResumeCleanup
    <3> QED BY <1>1, <1>3, <2>4, <3>3
  <2>5. CASE GraceEnds(w) \/ Verify(w)
    <3>1. tc_ops.work[w].at \in {"stopping", "forcing"}
      BY <2>5 DEF GraceEnds, Verify, At
    <3>2. Idle \in Jobs /\ Idle.at = "none"
      BY DEF Idle, Jobs, Owner
    <3>3. \A at \in {"verified", "forcing"} : [at |-> at, attempt |-> Of(w)] \in Jobs
      BY <1>0, Fields DEF Jobs
    <3>4. \/ tc_ops' = Working(w, Idle) \/ tc_ops' = Working(w, [at |-> "forcing", attempt |-> Of(w)])
          \/ tc_ops' = Working(w, [at |-> "verified", attempt |-> Of(w)]) /\ ~Alive(Of(w))
             /\ tc_att' = tc_att
      BY <2>5 DEF GraceEnds, Verify, FailCleanup, TreeGone
    <3>5. \/ tc_ops'.work[w] = Idle
          \/ tc_ops'.work[w] = [at |-> "forcing", attempt |-> Of(w)]
          \/ tc_ops'.work[w] = [at |-> "verified", attempt |-> Of(w)] /\ ~Alive(Of(w))
             /\ tc_att' = tc_att
      BY <1>0, <3>2, <3>3, <3>4, WorkEdits
    <3> QED BY <1>3, <2>1, <2>2, <3>1, <3>2, <3>5 DEF Alive
  <2>6. ASSUME NEW b \in TaskAttempts, DecideFeedForward(w, b) PROVE FALSE
    <3>1. [at |-> "feeding", attempt |-> b] \in Jobs
      BY DEF Jobs, Owner
    <3>2. tc_ops'.work[w] = [at |-> "feeding", attempt |-> b]
      BY <1>0, <2>6, <3>1, WorkEdits DEF DecideFeedForward
    <3> QED BY <1>3, <3>2
  <2> QED BY <1>0, <2>3, <2>4, <2>5, <2>6, OperationSteps
<1>4. \A w \in Workers : tc_ops'.work[w].at # "none" => tc_ops'.work[w].attempt \in TaskAttempts
  BY <1>0 DEF TypedControl, Free, Of
<1>5. ASSUME NEW w \in Workers, tc_ops'.work[w].at \in {"stopping", "forcing", "verified"}
      PROVE  Past(Of(w))'
  <2>1. Of(w)' = tc_ops'.work[w].attempt
    BY DEF Of
  <2>2. PICK a \in TaskAttempts : a = tc_ops'.work[w].attempt
    BY <1>4, <1>5
  <2>3. Past(a)'
    BY <1>3, <1>5, <2>2
  <2> QED BY <2>1, <2>2, <2>3 DEF Past
<1>6. ASSUME NEW a \in TaskAttempts, FoundClean(a)' PROVE Alive(a)' => tc_att'[a].late
  <2>1. CASE tc_att'[a].cleanup = "completed"
    <3>1. Cleaning(a)
      BY <1>0, AttemptSteps DEF RowStep
    <3>2. FoundClean(a)
      BY <2>1, <3>1 DEF Cleaning, FoundClean
    <3> QED BY <3>2, CleanStaysClean
  <2>2. ASSUME NEW w \in Workers, tc_ops'.work[w].at = "verified", tc_ops'.work[w].attempt = a
        PROVE  Alive(a)' => tc_att'[a].late
    BY <1>3, <2>2, CleanStaysClean
  <2> QED BY <1>6, <2>1, <2>2 DEF FoundClean, At, Of
<1>7. (\A a \in TaskAttempts : FoundClean(a) /\ Alive(a) => tc_att[a].late)'
  BY <1>6
<1> QED BY <1>2, <1>5, <1>7 DEF CleanupInv

LEMMA ReviewStep == ControlInv /\ ControlNext => ReviewInv'
<1> SUFFICES ASSUME ControlInv, ControlNext PROVE ReviewInv'
  OBVIOUS
<1>0. TypedControl /\ ReviewInv /\ \A r \in tc_rev : r[1] \in TaskAttempts /\ r[2] \in BOOLEAN
  BY DEF ControlInv, TypedControl
<1>1. \A a \in TaskAttempts : RowStep(a)
  BY <1>0, AttemptSteps
\* The row of an attempt that has written a review is there already.
<1>2. \A a \in TaskAttempts : tc_att[a].row # "none"
          => tc_att'[a].row # "none" /\ tc_att'[a].req = tc_att[a].req
  <2> TAKE a \in TaskAttempts
  <2>1. SaveResult(a) => tc_att'[a].row = "completed"
    BY <1>0 DEF SaveResult, TypedControl, AttemptRows, Rows
  <2>2. RowStep(a) /\ (Prepares(a) => tc_att[a].row = "none")
    BY <1>1 DEF Prepares, PrepareAttempt
  <2>3. Launched(a) => tc_att'[a].row = "active"
    BY <1>0 DEF Launched, Launch, TypedControl, AttemptRows, Rows
  <2> QED BY <2>1, <2>2, <2>3 DEF RowStep
<1>3. ASSUME NEW r \in tc_rev'
      PROVE  tc_att'[r[1]].row # "none" /\ (r[2] => tc_att'[r[1]].req = tc_task'.req)
  <2>1. CASE r \in tc_rev /\ ~ScopeStep
    <3>1. tc_task'.req = Task.req
      BY <1>0, <2>1, TaskSteps
    <3> QED BY <1>0, <1>2, <2>1, <3>1 DEF ReviewInv, ReviewsMatchRequirements
  <2>2. ASSUME NEW a \in TaskAttempts, RecordReview(a), r = <<a, TRUE>>
        PROVE  tc_att'[r[1]].row # "none" /\ tc_att'[r[1]].req = tc_task'.req
    BY <2>2 DEF RecordReview, AttemptMayAdvance, Task
  <2>3. CASE ~r[2] /\ \E q \in tc_rev : q[1] = r[1]
    BY <1>0, <1>2, <2>3 DEF ReviewInv
  <2> QED BY <1>0, <2>1, <2>2, <2>3, ReviewSteps
<1> QED BY <1>3 DEF ReviewInv, ReviewsMatchRequirements, Task

LEMMA SettlementStep == ControlInv /\ ControlNext => SettlementInv'
<1> SUFFICES ASSUME ControlInv, ControlNext PROVE SettlementInv'
  OBVIOUS
<1>0. TypedControl /\ SettlementInv /\ tc_att' \in AttemptRows /\ tc_ops' \in Operations
  BY AttemptSteps, OperationSteps DEF ControlInv
<1>1. ASSUME NEW a \in TaskAttempts
      PROVE  /\ tc_att'[a].result # "none" => tc_att'[a].row = "completed"
             /\ tc_att'[a].row = "completed" => ~Alive(a)'
             /\ tc_att[a].row = "completed" => tc_att'[a].row = "completed"
  <2>1. SaveResult(a) => tc_att'[a].row = "completed" /\ ~Alive(a)'
    BY <1>0 DEF SaveResult, TypedControl, AttemptRows, Rows, Alive
  <2>2. Launched(a) => /\ tc_att[a].row = "pending" /\ tc_att'[a].row = "active"
                       /\ tc_att'[a].result = tc_att[a].result
    BY <1>0 DEF Launched, Launch, TypedControl, AttemptRows, Rows
  <2>4. Prepares(a) => /\ tc_att[a].row = "none" /\ tc_att'[a].row = "pending"
                       /\ tc_att'[a].result = tc_att[a].result
    BY <1>0 DEF Prepares, PrepareAttempt, TypedControl, AttemptRows, Rows
  <2>3. RowStep(a)
    BY <1>0, AttemptSteps DEF ControlInv
  <2> QED BY <1>0, <2>1, <2>2, <2>3, <2>4 DEF RowStep, SettlementInv, Alive
<1>2. Settled(tc_ops.settle) /\ (tc_ops.settle.attempt # 0 => tc_ops.settle.attempt \in TaskAttempts)
  BY <1>0, Fields DEF SettlementInv, Owner
<1>3. ASSUME SettleStep PROVE Settled(tc_ops.settle)'
  <2>1. PICK a \in TaskAttempts : BeginSettle(a)
    BY <1>3 DEF SettleStep
  <2>2. /\ tc_ops'.settle.attempt = a /\ tc_att' = tc_att
        /\ tc_ops'.settle.terminal <=> tc_att[a].row = "completed"
    BY <1>0, <2>1 DEF BeginSettle, TypedControl, Operations
  <2>3. tc_task'.state = "running" /\ tc_task'.pause /\ tc_task'.attempt = a
    BY <1>0, <2>1 DEF BeginSettle, TypedControl, Tasks, Task
  <2> QED BY <2>2, <2>3 DEF Settled, Task
<1>4. ASSUME ~SettleStep, tc_ops'.settle = tc_ops.settle PROVE Settled(tc_ops.settle)'
  <2>1. tc_task' = tc_task \/ ~tc_task'.seen
    BY <1>0, <1>4, TaskSteps DEF Unseen, Task
  <2> QED BY <1>1, <1>2, <1>4, <2>1 DEF Settled, Task
<1>5. ASSUME tc_ops'.settle.attempt = 0 PROVE Settled(tc_ops.settle)'
  BY <1>5 DEF Settled
<1>6. Settled(tc_ops.settle)'
  BY <1>0, <1>3, <1>4, <1>5, OperationSteps
<1> QED BY <1>1, <1>6 DEF SettlementInv

LEMMA ControlStep == ControlInv /\ [ControlNext]_tcVars => ControlInv'
<1>1. ASSUME ControlInv, ControlNext PROVE ControlInv'
  BY <1>1, TypedStep, CleanupStep, ReviewStep, SettlementStep DEF ControlInv
<1>2. ASSUME ControlInv, UNCHANGED tcVars PROVE ControlInv'
  BY <1>2, Zenon
     DEF ControlInv, TypedControl, CleanupInv, ReviewInv, ReviewsMatchRequirements, SettlementInv,
         Settled, Past, FoundClean, AppliedChanges, Free, Of, At, Alive, Task, tcVars
<1> QED BY <1>1, <1>2

\* The control services keep their inductive invariant.
THEOREM ControlSafety == ControlSpec => []ControlInv
BY ControlInitially, ControlStep, PTL DEF ControlSpec

LEMMA ControlTypes == ControlInv => ControlTypeOK
BY DEF ControlInv, TypedControl, ControlTypeOK, Tasks, TaskStates, Involved, Owner, Versions,
       AttemptRows, Rows, Posts, Operations, Settlements, Jobs, Launches, Task

\* Every record of the control services keeps its shape; the requirement version
\* counts the changes of scope that were applied.
THEOREM ControlTyping == ControlSpec => []ControlTypeOK
BY ControlTypes, ControlSafety, PTL

\* InterruptionService.canExitTui: the operator leaves only when no process of the latest
\* interrupted attempt is left that was there when its tree was verified, whoever cleaned
\* up and however often, for every interleaving with launches under way.
THEOREM ExitNeedsProof == ControlSpec => []ExitIsProved
<1>1. ControlInv => ExitIsProved
  BY DEF ControlInv, CleanupInv, FoundClean, ExitIsProved, CanExitTui
<1> QED BY <1>1, ControlSafety, PTL

\* ReworkService: a valid review was written by an attempt that had the current
\* requirements, in every order of reviews, changes of scope and launches.
THEOREM ReviewsAreCurrent == ControlSpec => []ReviewsMatchRequirements
<1>1. ControlInv => ReviewsMatchRequirements
  BY DEF ControlInv, ReviewInv
<1> QED BY <1>1, ControlSafety, PTL

\* Only a stage's event that reduces under a requested pause, and a settlement, pause
\* a task.
LEMMA WhoPauses ==
    ASSUME ControlInv, ControlNext, tc_task'.state = "paused_after_run",
           Task.state # "paused_after_run"
    PROVE  \/ EndSettle
           \/ \E a \in TaskAttempts : tc_att[a].result = "durable" /\ Reduces(a)
<1>0. TypedControl /\ tc_task \in Tasks /\ Task = tc_task
  BY DEF ControlInv, TypedControl, Task
<1>1. ASSUME tc_task' = tc_task PROVE FALSE
  BY <1>0, <1>1
<1>2. ASSUME NEW t \in Tasks, t.last = Task.last, Begins(t) PROVE FALSE
  BY <1>0, <1>2, Beginning DEF BeginsNew
<1>3. ASSUME NEW s \in TaskStates, s # "paused_after_run",
             \/ Writes([Task EXCEPT !.state = s])
             \/ Writes([Task EXCEPT !.state = s, !.attempt = 0])
      PROVE  FALSE
  BY <1>0, <1>3 DEF Writes, Tasks
<1>4. ASSUME NEW a \in TaskAttempts, BeginSettle(a) PROVE FALSE
  BY <1>0, <1>4 DEF BeginSettle, Tasks
<1>5. ASSUME RequestPauseAfterRun PROVE FALSE
  BY <1>0, <1>5, Writing, TaskForms DEF RequestPauseAfterRun
<1>6. ASSUME Resume \/ Continue PROVE FALSE
  BY <1>0, <1>2, <1>6 DEF Resume, Continue
<1>7. {"interrupting", "cleanup_failed", "interrupted_needs_inspection"} \subseteq TaskStates
  BY DEF TaskStates, Involved
<1>8. ASSUME NEW w \in Workers, FailCleanup(w) PROVE FALSE
  BY <1>1, <1>3, <1>7, <1>8 DEF FailCleanup
<1>9. ASSUME NEW w \in Workers,
             Interrupt(w) \/ ResumeCleanup(w) \/ Verify(w) \/ CompleteCleanup(w)
      PROVE  FALSE
  BY <1>1, <1>3, <1>7, <1>8, <1>9 DEF Interrupt, ResumeCleanup, Verify, CompleteCleanup
<1>10. ASSUME NEW m \in Messages, ApplyScopeChange(m) PROVE FALSE
  <2>1. BeginsNew \/ tc_task'.state = "running"
    <3> DEFINE u == [Task EXCEPT !.req = @ + 1]
    <3>1. Begins(u)
      BY <1>10 DEF ApplyScopeChange
    <3> HIDE DEF u
    <3> DEFINE v == [u EXCEPT !.state = "running", !.attempt = Fresh, !.last = Fresh,
                              !.pause = FALSE]
    <3>2. tc_task' = [v EXCEPT !.seen = FALSE]
      BY <3>1 DEF Begins, Writes
    <3>3. "state" \in DOMAIN tc_task'
      BY <1>0, TaskSteps DEF Tasks
    <3> QED BY <3>2, <3>3
  <2> QED BY <2>1 DEF BeginsNew
<1>11. ASSUME NEW w \in Workers, ApplyFeedForward(w)
       PROVE  \E a \in TaskAttempts : tc_att[a].result = "durable" /\ Reduces(a)
  <2>1. Of(w) \in TaskAttempts
    BY <1>0, <1>11 DEF ApplyFeedForward, At, Free, TypedControl
  <2> QED BY <1>1, <1>11, <2>1 DEF ApplyFeedForward, NotConsumed
<1>12. ASSUME tc_task' # tc_task, ~EndSettle
       PROVE  \/ \E a \in TaskAttempts : ConsumeResult(a) \/ BeginSettle(a)
              \/ RequestPauseAfterRun \/ Resume \/ Continue
              \/ \E w \in Workers : \/ Interrupt(w) \/ ResumeCleanup(w) \/ Verify(w)
                                    \/ CompleteCleanup(w) \/ ApplyFeedForward(w)
              \/ \E m \in Messages : ApplyScopeChange(m)
  BY <1>12, Zenon
     DEF ControlNext, PrepareAttempt, Launch, LaunchFails, ProcessEnds, RecordReview, SaveResult, CrashAndRestart, GraceEnds,
         DecideFeedForward, MarkAcknowledged, MarkFailed, RetryFailed, ApplyOperational, Deliver,
         Enqueue, Moves
<1> QED BY <1>1, <1>4, <1>5, <1>6, <1>9, <1>10, <1>11, <1>12 DEF ConsumeResult

LEMMA PauseStep ==
    ASSUME ControlInv, ControlNext, tc_task'.state = "paused_after_run",
           Task.state # "paused_after_run"
    PROVE  /\ Task.state = "running" /\ Task.pause
           /\ tc_att[Task.attempt].row = "completed" /\ ~Alive(Task.attempt)
<1>0. TypedControl /\ SettlementInv
  BY DEF ControlInv
<1>1. CASE EndSettle
  <2> DEFINE op == tc_ops.settle
  <2>1. op.attempt # 0 /\ (tc_task'.state = Task.state \/ (op.terminal /\ Task.seen))
    <3>1. tc_task' = [Task EXCEPT !.seen = FALSE] => tc_task'.state = Task.state
      BY <1>0 DEF TypedControl, Tasks, Task
    <3> QED BY <1>1, <3>1 DEF EndSettle, StillCurrent
  <2>2. op.attempt \in TaskAttempts
    BY <1>0, <2>1, Fields DEF Owner
  <2> QED BY <1>0, <2>1, <2>2 DEF SettlementInv, Settled
<1>2. ASSUME NEW a \in TaskAttempts, tc_att[a].result = "durable", Reduces(a)
      PROVE  /\ Task.state = "running" /\ Task.pause
             /\ tc_att[Task.attempt].row = "completed" /\ ~Alive(Task.attempt)
  BY <1>0, <1>2, Reducing DEF SettlementInv
<1> QED BY <1>1, <1>2, WhoPauses

\* PauseController: a pause takes effect only on the attempt it waited for, whose run
\* is over; what was written to the task during the wait is never overwritten.
THEOREM PauseOverwritesNothing == ControlSpec => PauseLosesNothing
<1> DEFINE Pauses == (tc_task'.state = "paused_after_run" /\ Task.state # "paused_after_run")
                        => /\ Task.state = "running" /\ Task.pause
                           /\ tc_att[Task.attempt].row = "completed" /\ ~Alive(Task.attempt)
<1>1. ControlInv /\ [ControlNext]_tcVars => [Pauses]_tcVars
  BY PauseStep
<1> QED BY <1>1, ControlSafety, PTL DEF ControlSpec, PauseLosesNothing
=============================================================================
