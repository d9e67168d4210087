--------------------------- MODULE BaselineCapture ---------------------------
(* What a task and an attempt have changed: src/src/tracking/, the two baseline  *)
(* services (Git and plain directory), baseline-manifest.ts and diff-service.ts. *)
(* A capture reads the project twice while an editor, a build or an agent goes   *)
(* on writing, takes it only if nothing moved between the passes, stores the     *)
(* contents by their hash and gives the manifest its name last.  A change set    *)
(* compares a stored baseline with a scan made in the same way.                  *)
EXTENDS Naturals, FiniteSets, FiniteSetsExt

CONSTANTS FilePaths,    \* paths of the project: numbers, in the order they are read
          MaxChanges,   \* writes and removals by others
          MaxReads,     \* maxReadAttempts
          MaxScans      \* maxScanAttempts

ASSUME CaptureAssumption ==
    /\ FilePaths \subseteq Nat /\ FilePaths # {}
    /\ MaxChanges \in Nat /\ MaxReads \in Nat \ {0} /\ MaxScans \in Nat \ {0}

VARIABLES bc_git,       \* whether the project is a Git working tree
          bc_project,   \* what is at each path
          bc_clock,     \* changes made by others so far: no two have one stat
          bc_scan,      \* the scan under way; it is synchronous, so there is one
          bc_blobs,     \* contents that are in the store
          bc_baselines, \* manifests that carry their name
          bc_report     \* the last change set

bcVars == <<bc_git, bc_project, bc_clock, bc_scan, bc_blobs, bc_baselines, bc_report>>

Contents == {"a", "b"}
Objects == [kind : {"file"}, content : Contents] \cup
           [kind : {"link", "large"}, content : {"a"}]
Gone == [kind |-> "gone", content |-> "a", stat |-> 0]
Stat(object, stat) == [kind |-> object.kind, content |-> object.content, stat |-> stat]

\* An entry of a manifest.  A link of a plain directory and a large file have no hash:
\* the entry holds where the link goes, and the size.
NoHash == "none"
Missing == [type |-> "missing", hash |-> NoHash, target |-> NoHash]
Unlisted == [type |-> "unlisted", hash |-> NoHash, target |-> NoHash]
Hashes == Contents \cup {NoHash}
FileEntries == [type : {"file", "symlink", "missing", "unlisted"}, hash : Hashes, target : Hashes]

EntryAs(loop, object) ==
    [type |-> IF loop = "link" THEN "symlink" ELSE "file",
     hash |-> IF loop = "file" \/ bc_git THEN object.content ELSE NoHash,
     target |-> IF loop = "link" THEN object.content ELSE NoHash]
EntryOf(object) == EntryAs(object.kind, object)
Present(entry) == entry.type \in {"file", "symlink"}

BaselineKinds == {"task", "attempt"}
NoScan == [at |-> "idle", purpose |-> "none"]
NoManifest == [named |-> FALSE]
NoReport == [made |-> FALSE]
-----------------------------------------------------------------------------
\* compareSnapshots, compare

\* A removal and an addition of one content are a rename if there is one of each.
Renames(before, after, deleted, added) ==
    {r \in [from : deleted, to : added] :
        LET hash == after[r.to].hash
        IN /\ hash # NoHash /\ before[r.from].hash = hash
           /\ {p \in added : after[p].hash = hash} = {r.to}
           /\ {p \in deleted : before[p].hash = hash} = {r.from}
           /\ before[r.from].type = after[r.to].type}

EntryChanged(before, after) == before # after

\* The changes between two snapshots, as what becomes of each path.
Changes(before, after) ==
    LET added == {p \in FilePaths : ~Present(before[p]) /\ Present(after[p])}
        deleted == {p \in FilePaths : Present(before[p]) /\ ~Present(after[p])}
        both == {p \in FilePaths : Present(before[p]) /\ Present(after[p])}
        renames == Renames(before, after, deleted, added)
    IN [renamed |-> renames,
        added |-> added \ {r.to : r \in renames},
        deleted |-> deleted \ {r.from : r \in renames},
        typeChanged |-> {p \in both : before[p].type # after[p].type},
        modified |-> {p \in both : before[p].type = after[p].type
                                   /\ EntryChanged(before[p], after[p])},
        versions |-> [p \in FilePaths |-> after[p]]]
-----------------------------------------------------------------------------
Project(p) == bc_project[p]
Looked == {p \in FilePaths : bc_scan.listing[p] # "absent"}
Next1 == Min(bc_scan.todo)

\* An editor, a build or an agent writes a file, or removes it: at any moment of a scan.
WriteFile(p, object) ==
    /\ bc_clock < MaxChanges
    /\ bc_clock' = bc_clock + 1
    /\ bc_project' = [bc_project EXCEPT ![p] = Stat(object, bc_clock + 1)]
    /\ UNCHANGED <<bc_git, bc_scan, bc_blobs, bc_baselines, bc_report>>

RemoveFile(p) ==
    /\ bc_clock < MaxChanges /\ Project(p) # Gone
    /\ bc_clock' = bc_clock + 1
    /\ bc_project' = [bc_project EXCEPT ![p] = Gone]
    /\ UNCHANGED <<bc_git, bc_scan, bc_blobs, bc_baselines, bc_report>>
-----------------------------------------------------------------------------
\* The state of a scan: the paths it has still to see in this phase, the read attempt and
\* the scan attempt it is at, the read it is in the middle of, what it has listed, what it
\* has read in the first pass, and (for the properties) the project between the passes.
ScanFrom(purpose, scans) ==
    [at |-> "discover", purpose |-> purpose, scans |-> scans, todo |-> FilePaths, reads |-> 1,
     loop |-> "none", before |-> Gone, listing |-> [p \in FilePaths |-> "absent"],
     keys |-> [p \in FilePaths |-> [entry |-> Unlisted, stat |-> 0]],
     instant |-> [p \in FilePaths |-> Gone]]

OnlyScan == UNCHANGED <<bc_git, bc_project, bc_clock, bc_blobs, bc_baselines, bc_report>>

\* The next phase begins when this one has seen every path.
PhaseAfter(at) == CASE at = "discover" -> "first" [] at = "first" -> "second"
                    [] at = "second" -> "rediscover" [] at = "rediscover" -> "scanned"
Advanced(scan) ==
    IF scan.todo # {} THEN scan
    ELSE [scan EXCEPT !.at = PhaseAfter(scan.at),
                      !.todo = IF scan.at = "second" THEN FilePaths ELSE Looked,
                      !.instant = IF scan.at = "first" THEN bc_project ELSE @]
Seen(scan, p) == Advanced([scan EXCEPT !.todo = @ \ {p}, !.reads = 1, !.loop = "none",
                                       !.before = Gone])

\* An unstable project is scanned again from the beginning, or the capture fails.
Unstable(scan) == bc_scan' = IF scan.scans < MaxScans
                             THEN ScanFrom(scan.purpose, scan.scans + 1) ELSE NoScan
\* Mutation: the limit is tested after the attempt it should prevent.
RetryOnceMore(scan) == IF scan.reads <= MaxReads
                       THEN bc_scan' = [scan EXCEPT !.reads = @ + 1, !.before = Gone]
                       ELSE Unstable(scan)
\* A read that is disturbed is repeated, until it has been tried maxReadAttempts times.
Retry(scan) == IF scan.reads < MaxReads
               THEN bc_scan' = [scan EXCEPT !.reads = @ + 1, !.before = Gone]
               ELSE Unstable(scan)

\* What a listing says of a path: whether it is there, and for the one path Git tracks
\* whether it is as committed.
Tracked == IF bc_git THEN {Max(FilePaths)} ELSE {}
Listed(p) == CASE p \in Tracked -> (IF Project(p) = Gone THEN "deleted"
                                    ELSE IF Project(p).stat = 0 THEN "committed" ELSE "changed")
               [] p \notin Tracked -> IF Project(p) = Gone THEN "absent" ELSE "there"

Discover ==
    /\ bc_scan.at = "discover"
    /\ LET p == Next1
           scan == [bc_scan EXCEPT !.listing[p] = Listed(p), !.todo = @ \ {p}]
           looked == {q \in FilePaths : scan.listing[q] # "absent"}
       IN bc_scan' = IF scan.todo # {} THEN scan
                     ELSE [scan EXCEPT !.at = IF looked = {} THEN "rediscover" ELSE "first",
                                       !.todo = IF looked = {} THEN FilePaths ELSE looked]
    /\ OnlyScan

\* The file set, and the status, are what they were.
Rediscover ==
    /\ bc_scan.at = "rediscover"
    /\ IF Listed(Next1) = bc_scan.listing[Next1] THEN bc_scan' = Seen(bc_scan, Next1)
       ELSE Unstable(bc_scan)
    /\ OnlyScan
-----------------------------------------------------------------------------
\* #scanFile

\* Mutation: the second pass is satisfied with whatever it reads.
NoSecondLook(p, key) == TRUE

\* The second pass reads what the first one has read.
Verified(p, key) == bc_scan.keys[p] = key

\* A path has been read.
Reads(p, entry, stat) ==
    LET key == [entry |-> entry, stat |-> stat]
    IN IF bc_scan.at = "first" THEN bc_scan' = Seen([bc_scan EXCEPT !.keys[p] = key], p)
       ELSE IF Verified(p, key) THEN bc_scan' = Seen(bc_scan, p)
       ELSE Unstable(bc_scan)

\* lstat tells how the path will be read, and takes the stat before the read.
LoopFor(object) == IF object.kind = "large" /\ bc_git THEN "file" ELSE object.kind

BeginRead ==
    /\ bc_scan.at \in {"first", "second"} /\ bc_scan.before = Gone /\ bc_scan.reads = 1
    /\ LET p == Next1
       IN IF Project(p) = Gone THEN Reads(p, Missing, 0)
          ELSE bc_scan' = [bc_scan EXCEPT !.loop = LoopFor(Project(p)), !.before = Project(p)]
    /\ OnlyScan

\* A link that is gone or no longer one, a file that has become a link, and a large file
\* that is gone are errors of another kind: the scan is not tried again.
IsAnError(loop, object) ==
    CASE loop = "file" -> object.kind = "link"
      [] loop = "link" -> object.kind # "link"
      [] loop = "large" -> object = Gone
ScanFails == bc_scan' = NoScan

\* A read is tried again: it stays the kind of read it was.
BeginAgain ==
    /\ bc_scan.at \in {"first", "second"} /\ bc_scan.before = Gone /\ bc_scan.reads > 1
    /\ LET object == Project(Next1)
       IN IF IsAnError(bc_scan.loop, object) /\ object.kind # "link" THEN ScanFails
          ELSE IF object = Gone THEN Retry(bc_scan)
          ELSE bc_scan' = [bc_scan EXCEPT !.before = object]
    /\ OnlyScan

\* The content is what the stats before and after it agree on.
EndRead ==
    /\ bc_scan.at \in {"first", "second"} /\ bc_scan.before # Gone
    /\ LET p == Next1
           object == Project(p)
           loop == bc_scan.loop
       IN \/ /\ object = bc_scan.before /\ ~IsAnError(loop, object)
             /\ Reads(p, EntryAs(loop, object), object.stat)
          \/ object # bc_scan.before /\ ~IsAnError(loop, object) /\ Retry(bc_scan)
          \/ /\ object # bc_scan.before /\ loop = "file" /\ object.kind = "link"
             /\ Retry(bc_scan)
          \/ IsAnError(loop, object) /\ ScanFails
    /\ OnlyScan
-----------------------------------------------------------------------------
\* loadNonGitManifest, loadBaselineManifest: the manifest has its name and its contents are
\* there; Git's loader asks the same of an attempt's task baseline.
Intact(kind) ==
    /\ bc_baselines[kind] # NoManifest
    /\ \A p \in FilePaths : bc_baselines[kind].files[p].hash \in bc_blobs \cup {NoHash}
Loads(kind) == Intact(kind) /\ (bc_git /\ kind = "attempt" => Intact("task"))

\* captureTaskBaseline, captureAttemptBaseline: an attempt's needs its task's.
Capture(kind) ==
    /\ bc_scan = NoScan /\ bc_baselines[kind] = NoManifest
    /\ kind = "attempt" => Loads("task")
    /\ bc_scan' = ScanFrom(kind, 1)
    /\ OnlyScan

\* taskWindow, attemptWindow: the stored baseline against a scan of now.
Window(kind) == IF kind = "task" THEN "task-window" ELSE "attempt-window"
Compare(kind) ==
    /\ bc_scan = NoScan /\ Loads(kind) /\ bc_report = NoReport
    /\ bc_scan' = ScanFrom(Window(kind), 1)
    /\ OnlyScan

Snapshot == [p \in FilePaths |-> bc_scan.keys[p].entry]

Report ==
    /\ bc_scan.at = "scanned"
    /\ \E kind \in BaselineKinds :
        /\ bc_scan.purpose = Window(kind)
        /\ bc_report' = [of |-> kind, changes |-> Changes(bc_baselines[kind].files, Snapshot),
                         truth |-> bc_scan.instant]
    /\ bc_scan' = NoScan
    /\ UNCHANGED <<bc_git, bc_project, bc_clock, bc_blobs, bc_baselines>>

\* Mutation: the manifest gets its name while contents are still to be installed.
NamedAtOnce == TRUE

\* completeBaselineManifest: the contents first, one by one, and the directory's name last.
Pending == {Snapshot[p].hash : p \in FilePaths} \ (bc_blobs \cup {NoHash})
ContentsInstalled == Pending = {}

InstallBlob ==
    /\ bc_scan.at = "scanned" /\ bc_scan.purpose \in BaselineKinds
    /\ \E hash \in Pending : bc_blobs' = bc_blobs \cup {hash}
    /\ UNCHANGED <<bc_git, bc_project, bc_clock, bc_scan, bc_baselines, bc_report>>

Complete ==
    /\ bc_scan.at = "scanned" /\ bc_scan.purpose \in BaselineKinds /\ ContentsInstalled
    /\ bc_baselines' = [bc_baselines EXCEPT
           ![bc_scan.purpose] = [files |-> Snapshot, truth |-> bc_scan.instant]]
    /\ bc_scan' = NoScan
    /\ UNCHANGED <<bc_git, bc_project, bc_clock, bc_blobs, bc_report>>

\* A write to the store fails, or the process dies, wherever it is: what is installed stays.
Abandon == bc_scan # NoScan /\ ScanFails /\ OnlyScan
-----------------------------------------------------------------------------
CaptureInit ==
    /\ bc_git \in BOOLEAN
    /\ bc_project \in [FilePaths -> {Gone, Stat([kind |-> "file", content |-> "a"], 0)}]
    /\ bc_clock = 0 /\ bc_scan = NoScan /\ bc_blobs = {} /\ bc_report = NoReport
    /\ bc_baselines = [kind \in BaselineKinds |-> NoManifest]

CaptureNext ==
    \/ \E p \in FilePaths : RemoveFile(p) \/ \E object \in Objects : WriteFile(p, object)
    \/ \E kind \in BaselineKinds : Capture(kind) \/ Compare(kind)
    \/ Discover \/ Rediscover \/ BeginRead \/ BeginAgain \/ EndRead
    \/ Report \/ InstallBlob \/ Complete \/ Abandon

CaptureSpec == CaptureInit /\ [][CaptureNext]_bcVars
-----------------------------------------------------------------------------
CaptureTypeOK ==
    /\ bc_git \in BOOLEAN /\ bc_clock \in 0 .. MaxChanges /\ bc_blobs \subseteq Contents
    /\ \A p \in FilePaths : Project(p) = Gone \/ Project(p).stat \in 0 .. MaxChanges
    /\ \A kind \in BaselineKinds : bc_baselines[kind] # NoManifest =>
           bc_baselines[kind].files \in [FilePaths -> FileEntries]
    /\ bc_scan # NoScan => /\ bc_scan.todo \subseteq FilePaths
                           /\ bc_scan.reads \in 1 .. MaxReads /\ bc_scan.scans \in 1 .. MaxScans

\* What the change set makes of the baseline.
Applied(files, changes) ==
    [p \in FilePaths |->
        IF p \in changes.added \cup changes.modified \cup changes.typeChanged
                 \cup {r.to : r \in changes.renamed} THEN changes.versions[p]
        ELSE IF p \in changes.deleted \cup {r.from : r \in changes.renamed} THEN Missing
        ELSE files[p]]
Faithful(files, truth) ==
    \A p \in FilePaths : Present(files[p]) => /\ truth[p] # Gone
                                              /\ files[p] = EntryOf(truth[p])

\* A baseline, and what a change set makes of it, are the project as it was at one instant,
\* not a mixture of several: a content that is claimed for a path was there, at the moment
\* all the other contents were there too, however the project was written to meanwhile.
\* (A path that was created and removed again within one scan may be left out.)
ChangeSetsAreOfOneInstant ==
    /\ \A kind \in BaselineKinds : bc_baselines[kind] # NoManifest =>
           Faithful(bc_baselines[kind].files, bc_baselines[kind].truth)
    /\ bc_report # NoReport =>
           Faithful(Applied(bc_baselines[bc_report.of].files, bc_report.changes),
                    bc_report.truth)

\* A baseline that has its name can be loaded: whatever failed or died while it was made,
\* and whichever other capture installed the contents.
NamedBaselineLoads ==
    \A kind \in BaselineKinds : bc_baselines[kind] # NoManifest => Loads(kind)
=============================================================================
