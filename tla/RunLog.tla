-------------------------------- MODULE RunLog --------------------------------
(* The log of a run: src/src/logging/jsonl-log.ts and the index of its lines in  *)
(* the database, log-index-repository.ts.  A file has one writer, by a lock file *)
(* beside it; the writer appends line after line at its own offset, synchronises *)
(* each before it acknowledges it, and a new writer cuts off what a crash has    *)
(* left of the last line.                                                        *)
(*                                                                               *)
(* The file is a sequence of cells, what one call of write may put there; a      *)
(* line has one or two of them, and its newline is in the last.                  *)
EXTENDS Naturals, Sequences, FiniteSets, FiniteSetsExt

CONSTANTS LogWriters,  \* processes that open the file
          MaxLines     \* lines that are ever appended

ASSUME LogAssumption == MaxLines \in Nat \ {0} /\ 0 \notin LogWriters

VARIABLES rl_file,    \* the cells of the file
          rl_lock,    \* the writer the lock file was made by, or 0
          rl_writer,  \* the writers
          rl_acked,   \* lines that were acknowledged, with their place
          rl_index,   \* log_index
          rl_lines    \* lines that were handed to a writer

rlVars == <<rl_file, rl_lock, rl_writer, rl_acked, rl_index, rl_lines>>

LineIds == 1 .. MaxLines
Lengths == 1 .. 2
NoLine == [id |-> 0, of |-> 1]
Lines == {NoLine} \cup [id : LineIds, of : Lengths]
Places == [id : LineIds, of : Lengths, seq : Nat, offset : Nat]

LogTypeOK ==
    /\ rl_file \in Seq([id : LineIds, of : Lengths, part : Lengths, seq : Nat])
    /\ rl_lock \in {0} \cup LogWriters
    /\ rl_writer \in [LogWriters ->
          [at : {"closed", "open", "closing", "dead"}, seq : Nat, offset : Nat,
           unusable : BOOLEAN, queue : Seq(Lines \ {NoLine}), line : Lines, written : 0 .. 2]]
    /\ rl_acked \subseteq Places /\ rl_index \subseteq Places
    /\ rl_lines \in 0 .. MaxLines

W(w) == rl_writer[w]
Becomes(w, writer) == rl_writer' = [rl_writer EXCEPT ![w] = writer]
NoWriter == [at |-> "closed", seq |-> 0, offset |-> 0, unusable |-> FALSE,
             queue |-> <<>>, line |-> NoLine, written |-> 0]
-----------------------------------------------------------------------------
\* scanFile

\* Where lines end.
LineEnds == {e \in DOMAIN rl_file : rl_file[e].part = rl_file[e].of}
Begin(e) == Max({0} \cup {d \in LineEnds : d < e}) + 1
Number(e) == Cardinality({d \in LineEnds : d <= e})

\* validateRecord, with the checksum: every part of the line is there, in its order, and
\* the number of the line is its own.
Whole(e) == /\ e - Begin(e) + 1 = rl_file[e].of
            /\ rl_file[e].seq = Number(e)
            /\ \A k \in Begin(e) .. e :
                   rl_file[k] = [rl_file[e] EXCEPT !.part = k - Begin(e) + 1]
Corrupt == \E e \in LineEnds : ~Whole(e)

CompleteBytes == Max({0} \cup LineEnds)
Entries == {[id |-> rl_file[e].id, of |-> rl_file[e].of, seq |-> Number(e),
             offset |-> Begin(e) - 1] : e \in LineEnds}
Truncated == SubSeq(rl_file, 1, CompleteBytes)
-----------------------------------------------------------------------------
\* Mutation: the lock file is opened whether it is there or not.
LockIgnored == TRUE

\* open(lockPath, 'wx')
LockIsFree == rl_lock = 0

\* A file with a corrupt line is not opened, and the lock is given back.
Open(w) ==
    /\ W(w).at = "closed" /\ LockIsFree /\ ~Corrupt
    /\ rl_lock' = w
    /\ rl_file' = Truncated
    /\ Becomes(w, [NoWriter EXCEPT !.at = "open", !.seq = Cardinality(LineEnds),
                                   !.offset = CompleteBytes])
    /\ UNCHANGED <<rl_acked, rl_index, rl_lines>>

\* append: the state of the writer is looked at when the line is queued.
Enqueue(w, length) ==
    /\ W(w).at = "open" /\ ~W(w).unusable /\ rl_lines < MaxLines
    /\ rl_lines' = rl_lines + 1
    /\ Becomes(w, [W(w) EXCEPT !.queue = Append(@, [id |-> rl_lines + 1, of |-> length])])
    /\ UNCHANGED <<rl_file, rl_lock, rl_acked, rl_index>>

Idle(w) == W(w).at \in {"open", "closing"} /\ W(w).line = NoLine

BeginAppend(w) ==
    /\ Idle(w) /\ W(w).queue # <<>>
    /\ Becomes(w, [W(w) EXCEPT !.line = Head(W(w).queue), !.queue = Tail(@), !.written = 0])
    /\ UNCHANGED <<rl_file, rl_lock, rl_acked, rl_index, rl_lines>>

\* One call of write, at the writer's own offset: over whatever is there.
WriteSome(w) ==
    LET line == W(w).line
        part == W(w).written + 1
        cell == [id |-> line.id, of |-> line.of, part |-> part, seq |-> W(w).seq + 1]
    IN /\ line # NoLine /\ part <= line.of
       /\ rl_file' = IF W(w).offset + part <= Len(rl_file)
                     THEN [rl_file EXCEPT ![W(w).offset + part] = cell]
                     ELSE Append(rl_file, cell)
       /\ Becomes(w, [W(w) EXCEPT !.written = part])
       /\ UNCHANGED <<rl_lock, rl_acked, rl_index, rl_lines>>

\* Mutation: the offset stays where the line began.
SameOffset(w) == W(w).offset
NextOffset(w) == W(w).offset + W(w).line.of

\* The line is synchronised, then indexed if that succeeds.
FinishAppend(w) ==
    LET place == [id |-> W(w).line.id, of |-> W(w).line.of,
                  seq |-> W(w).seq + 1, offset |-> W(w).offset]
    IN /\ W(w).line # NoLine /\ W(w).written = W(w).line.of
       /\ rl_acked' = rl_acked \cup {place}
       /\ rl_index' \in {rl_index, rl_index \cup {place}}
       /\ Becomes(w, [W(w) EXCEPT !.seq = @ + 1, !.offset = NextOffset(w), !.line = NoLine])
       /\ UNCHANGED <<rl_file, rl_lock, rl_lines>>

\* The handle does not validate, a write fails, or the file is not synchronised.
FailAppend(w) ==
    /\ W(w).line # NoLine
    /\ Becomes(w, [W(w) EXCEPT !.unusable = TRUE, !.line = NoLine])
    /\ UNCHANGED <<rl_file, rl_lock, rl_acked, rl_index, rl_lines>>

RebuildIndex(w) ==
    /\ Idle(w) /\ ~Corrupt
    /\ rl_file' = Truncated
    /\ rl_index' = Entries
    /\ Becomes(w, IF Truncated = rl_file THEN W(w)
                  ELSE [W(w) EXCEPT !.offset = CompleteBytes, !.seq = Cardinality(LineEnds)])
    /\ UNCHANGED <<rl_lock, rl_acked, rl_lines>>

\* close waits for what is queued; lines are refused from now on.
CloseLog(w) ==
    /\ W(w).at = "open"
    /\ Becomes(w, [W(w) EXCEPT !.at = "closing"])
    /\ UNCHANGED <<rl_file, rl_lock, rl_acked, rl_index, rl_lines>>

LogClosed(w) ==
    /\ W(w).at = "closing" /\ Idle(w) /\ W(w).queue = <<>>
    /\ Becomes(w, NoWriter)
    /\ rl_lock' = 0
    /\ UNCHANGED <<rl_file, rl_acked, rl_index, rl_lines>>

\* The process dies; its lock file stays, and an operator may remove it.
WriterCrashes(w) ==
    /\ W(w).at \in {"open", "closing"}
    /\ Becomes(w, [NoWriter EXCEPT !.at = "dead"])
    /\ UNCHANGED <<rl_file, rl_lock, rl_acked, rl_index, rl_lines>>

RemoveLock ==
    /\ rl_lock # 0 /\ \A w \in LogWriters : rl_lock = w => W(w).at = "dead"
    /\ rl_lock' = 0
    /\ UNCHANGED <<rl_file, rl_writer, rl_acked, rl_index, rl_lines>>
-----------------------------------------------------------------------------
LogInit ==
    /\ rl_file = <<>> /\ rl_lock = 0 /\ rl_acked = {} /\ rl_index = {} /\ rl_lines = 0
    /\ rl_writer = [w \in LogWriters |-> NoWriter]

LogNext ==
    \/ RemoveLock
    \/ \E w \in LogWriters :
        \/ Open(w) \/ BeginAppend(w) \/ WriteSome(w) \/ FinishAppend(w) \/ FailAppend(w)
        \/ RebuildIndex(w) \/ CloseLog(w) \/ LogClosed(w) \/ WriterCrashes(w)
        \/ \E length \in Lengths : Enqueue(w, length)

LogSpec == LogInit /\ [][LogNext]_rlVars
-----------------------------------------------------------------------------
\* What append has acknowledged is in the file, every part of it and at the place it
\* named: whoever writes afterwards, fails, crashes or repairs the file.
AcknowledgedLinesSurvive ==
    \A p \in rl_acked : \A part \in 1 .. p.of :
        /\ p.offset + part <= Len(rl_file)
        /\ rl_file[p.offset + part] = [id |-> p.id, of |-> p.of, part |-> part, seq |-> p.seq]
=============================================================================
