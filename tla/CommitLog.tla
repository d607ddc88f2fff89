----------------------------- MODULE CommitLog ------------------------------
(***************************************************************************)
(* CommitLogService of a storage node: segment files, their names,         *)
(* rotation, sequence numbers and recovery.  (StorageEngine has the log's  *)
(* part in a write: torn lines, failed appends and what they lose.)        *)
(*                                                                         *)
(* A file is named by a time in seconds, so its name is a number; names    *)
(* have as many digits as one another, and sort as numbers do.  An entry   *)
(* is its sequence number and its place in the order of all appends.       *)
(***************************************************************************)
EXTENDS Naturals, FiniteSets, Sequences, FiniteSetsExt

CONSTANTS
  SegmentSize,   \* config.SegmentSize, in entries
  ReadErrors,    \* files that may fail to be read in recoveries
  ClockSteps,    \* what the clock may do: subset of {"forward", "back"}
  MaxAppends,    \* bound: entries
  MaxStarts,     \* bound: starts of the node
  MaxTime        \* bound: the clock

CommitLogAssumption ==
  /\ SegmentSize \in Nat \ {0} /\ ReadErrors \in Nat
  /\ ClockSteps \subseteq {"forward", "back"}
  /\ MaxAppends \in Nat /\ MaxStarts \in Nat /\ MaxTime \in Nat

VARIABLES
  files,      \* the entries of each segment file
  up,         \* "down", "opened" (before Recover) or "serving"
  current,    \* currentFile
  closed,     \* currentFile was closed
  segmentID,  \* the name of the next segment
  sequence,   \* sequenceNumber
  written,    \* entries written so far
  appended,   \* the places of those that Append has returned success for
  recovered,  \* the entries the last recovery replayed, in its order
  errors,     \* files that failed to be read so far
  starts,     \* starts of the node
  now         \* the clock

vars == <<files, up, current, closed, segmentID, sequence, written, appended,
          recovered, errors, starts, now>>

FileNames == {t \in 0..MaxTime : files[t].exists}

NoFile == [exists |-> FALSE, entries |-> <<>>]

Init ==
  /\ files = [t \in 0..MaxTime |-> NoFile]
  /\ up = "down" /\ current = 0 /\ closed = TRUE /\ segmentID = 0
  /\ sequence = 0 /\ written = 0 /\ appended = {} /\ recovered = <<>>
  /\ errors = 0 /\ starts = 0 /\ now = 0

------------------------------------------------------------------------------

\* Mutant: the next segment gets the name of a later second.
OpenedAhead(name) ==
  /\ current' = name /\ closed' = FALSE
  /\ segmentID' = IF now < MaxTime THEN now + 1 ELSE now
  /\ files' = [files EXCEPT ![name].exists = TRUE]

\* openNewSegment, once the file is open: it is created, or appended to, and
\* the next segment is named by this second.
Opened(name) ==
  /\ current' = name /\ closed' = FALSE /\ segmentID' = now
  /\ files' = [files EXCEPT ![name].exists = TRUE]

\* NewCommitLogService opens a segment named by this second.
Start ==
  /\ up = "down" /\ starts < MaxStarts
  /\ up' = "opened" /\ starts' = starts + 1
  /\ Opened(now)
  /\ sequence' = 0 /\ recovered' = <<>>
  /\ UNCHANGED <<written, appended, errors, now>>

\* What recoverFromFile replays of a file, up to an error of the scanner.
Replayed(name, unread) ==
  SubSeq(files[name].entries, 1,
         IF name \in DOMAIN unread THEN unread[name] ELSE Len(files[name].entries))

\* The files one after another in the order of their names, which is that of time.
InOrder(unread) ==
  LET upTo[t \in 0..MaxTime] ==
        IF t = 0 THEN Replayed(0, unread) ELSE upTo[t - 1] \o Replayed(t, unread)
  IN  upTo[MaxTime]

EntriesOf(names) == UNION {Range(files[t].entries) : t \in names}

MaxSequence(entries) == Max({0} \cup {e.sequence : e \in entries})

\* Recover replays the files and goes on from the highest sequence number of those
\* that were read to the end.
Recover(unread) ==
  /\ up = "opened" /\ up' = "serving"
  /\ recovered' = InOrder(unread)
  /\ sequence' = MaxSequence(EntriesOf(FileNames \ DOMAIN unread))
  /\ errors' = errors + Cardinality(DOMAIN unread)
  /\ UNCHANGED <<files, current, closed, segmentID, written, appended, starts, now>>

------------------------------------------------------------------------------

\* The line of an entry at the end of the current file.
Line == [sequence |-> sequence', place |-> written']

\* Append writes the line and syncs it.
AppendEntry ==
  /\ up = "serving" /\ sequence < MaxAppends
  /\ ~closed
  /\ sequence' = sequence + 1 /\ written' = written + 1
  /\ files' = [files EXCEPT ![current].entries = Append(@, Line)]
  /\ appended' = appended \cup {written'}
  /\ UNCHANGED <<up, current, closed, segmentID, recovered, errors, starts, now>>

\* The write fails, always when the file is closed.
WriteFails ==
  /\ up = "serving" /\ sequence < MaxAppends
  /\ sequence' = sequence + 1
  /\ UNCHANGED <<files, up, current, closed, segmentID, written, appended,
                 recovered, errors, starts, now>>

\* The line is written and the sync fails.
SyncFails ==
  /\ up = "serving" /\ sequence < MaxAppends /\ ~closed
  /\ sequence' = sequence + 1 /\ written' = written + 1
  /\ files' = [files EXCEPT ![current].entries = Append(@, Line)]
  /\ UNCHANGED <<up, current, closed, segmentID, appended, recovered, errors,
                 starts, now>>

\* checkRotation finds the current file large enough (it cannot stat a closed one).
Full == up # "down" /\ ~closed /\ Len(files[current].entries) >= SegmentSize

\* The old file is closed and the next one opened,
Rotate ==
  /\ Full /\ Opened(segmentID)
  /\ UNCHANGED <<up, sequence, written, appended, recovered, errors, starts, now>>

\* or the next one cannot be opened.
RotateFails ==
  /\ Full /\ closed' = TRUE
  /\ UNCHANGED <<files, up, current, segmentID, sequence, written, appended,
                 recovered, errors, starts, now>>

\* The process ends.
Stop ==
  /\ up # "down" /\ up' = "down" /\ closed' = TRUE
  /\ UNCHANGED <<files, current, segmentID, sequence, written, appended,
                 recovered, errors, starts, now>>

Tick ==
  /\ now' \in {t \in {now + 1} : "forward" \in ClockSteps} \cup
              {t \in 0..now - 1 : "back" \in ClockSteps}
  /\ now' <= MaxTime
  /\ UNCHANGED <<files, up, current, closed, segmentID, sequence, written,
                 appended, recovered, errors, starts>>

\* The files that fail in a recovery, each after some of its lines.
Unread ==
  {unread \in UNION {[S -> 0..MaxAppends] : S \in SUBSET FileNames} :
     /\ errors + Cardinality(DOMAIN unread) <= ReadErrors
     /\ \A t \in DOMAIN unread : unread[t] <= Len(files[t].entries)}

Next ==
  \/ Start \/ \E unread \in Unread : Recover(unread)
  \/ AppendEntry \/ WriteFails \/ SyncFails
  \/ Rotate \/ RotateFails \/ Stop \/ Tick

Spec == Init /\ [][Next]_vars

------------------------------------------------------------------------------
\* Properties.

Entries == EntriesOf(FileNames)

\* What recovery replays is a prefix of what was written, in that order and
\* without a gap, although a segment bears the time at which the one before it
\* was opened, two segments may share a file and a restart may fall in the same
\* second.
ReplaysInOrder ==
  up = "serving" => \A i \in DOMAIN recovered : recovered[i].place = i

\* Entries get higher sequence numbers than the ones written before them, also
\* after a restart.
SequenceIncreasing ==
  \A d, e \in Entries : d.place < e.place => d.sequence < e.sequence

\* An append that returned success is in a file, whatever rotations failed.
AppendedAreInFiles == appended \subseteq {e.place : e \in Entries}

------------------------------------------------------------------------------
\* What the documentation or a comment says, and this code does not do: TLC finds
\* a counterexample to each of these.

\* A recovered entry is never followed by one with a lower sequence number.
ReplaysBySequence ==
  \A i, j \in DOMAIN recovered : i < j => recovered[i].sequence < recovered[j].sequence

\* A rotation goes on in a new file.
RotationOpensNewFile == [][Rotate => current' # current]_vars
==============================================================================
