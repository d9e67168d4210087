---------------------------- MODULE ProjectWrites ----------------------------
(* What a task promises of the project it works for: it writes it once, one file *)
(* after another, and from one candidate, which it begins on files that are as   *)
(* the task has found them.  Either all of the candidate gets there, or what was *)
(* written is put back as far as it goes, and nothing else is.  The user edits   *)
(* the project all the while.                                                    *)
CONSTANTS Files,         \* paths of the project
          FileContents,  \* what a file may hold
          Source,        \* of a file as the task has found it
          Edited,        \* of one that the user has edited
          Skewed         \* of one that a write has not got right

VARIABLES project,    \* contents of the files
          phase,      \* "before", "writing", then "promoted" or "over"
          candidate,  \* what is being written
          todo,       \* files that are still to be written
          done        \* files that have been

writesVars == <<project, phase, candidate, todo, done>>

Found == [f \in Files |-> Source]

Edit(f) == /\ project' = [project EXCEPT ![f] = Edited]
           /\ UNCHANGED <<phase, candidate, todo, done>>

Begin == /\ phase = "before" /\ phase' = "writing"
         /\ candidate' \in [Files -> FileContents]
         /\ todo' = {f \in Files : candidate'[f] # Source} /\ done' = {}
         /\ \A f \in todo' : project[f] = Source
         /\ UNCHANGED project

Write(f) == /\ phase = "writing" /\ f \in todo
            /\ \E c \in {candidate[f], Skewed} : project' = [project EXCEPT ![f] = c]
            /\ todo' = todo \ {f} /\ done' = done \cup {f}
            /\ UNCHANGED <<phase, candidate>>

Ends(outcome) == phase' = outcome /\ candidate' = Found /\ todo' = {} /\ done' = {}

Complete == /\ phase = "writing" /\ todo = {}
            /\ \A f \in done : project[f] = candidate[f]
            /\ Ends("promoted")
            /\ UNCHANGED project

PutBack == /\ phase = "writing"
           /\ \E back \in SUBSET done :
                 project' = [f \in Files |-> IF f \in back THEN Source ELSE project[f]]
           /\ Ends("over")

\* Nothing is written; or what was is no longer remembered.
Close == /\ phase \in {"before", "promoted"} /\ phase' = "over"
         /\ UNCHANGED <<project, candidate, todo, done>>

WritesInit == /\ project = Found /\ phase = "before"
              /\ candidate = Found /\ todo = {} /\ done = {}
WritesNext == Begin \/ Complete \/ PutBack \/ Close \/ \E f \in Files : Edit(f) \/ Write(f)
WritesSpec == WritesInit /\ [][WritesNext]_writesVars
=============================================================================
