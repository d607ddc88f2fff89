---------------------------- MODULE StorageParts -----------------------------
(***************************************************************************)
(* Parts that keep writes: a hit of the cache, the commit log and the end  *)
(* of the process of a storage node, and the hints that a coordinator has  *)
(* in memory and in the database. They share no state with one another;    *)
(* each is an instance of its module.                                      *)
(***************************************************************************)
EXTENDS Integers, Sequences, FiniteSets

CONSTANTS
  Readers, MaxPuts,                                       \* CacheRead
  SegmentSize, ReadErrors, ClockSteps, MaxAppends, MaxStarts, LogTime,  \* CommitLog
  Clients, MaxCalls,                                      \* Shutdown
  Replayers, KeyOf, MaxHints, HintRetries,                \* HintedHandoff
  StoredHints, BatchSize, MaxReplays, Rejected, DbFails, NodeIsDown  \* HintReplay

VARIABLES
  entry, puts, toStore, read,
  logFiles, up, current, closed, segmentID, sequence, written, appended, recovered,
  errors, starts, logNow,
  main, logOpen, log, memTable, flushing, tables, rpc, acked, refused,
  list, hinted, expired, retries, replayer, delivered, panicked,
  rows, writes, old, node, got, at, batch, full, due

Hits == INSTANCE CacheRead

Segments == INSTANCE CommitLog WITH MaxTime <- LogTime, files <- logFiles, now <- logNow

Exit == INSTANCE Shutdown WITH MaxWrites <- MaxCalls

Handoff == INSTANCE HintedHandoff WITH
  Workers <- Replayers, MaxRetries <- HintRetries, stored <- hinted, old <- expired,
  worker <- replayer

Replay == INSTANCE HintReplay WITH
  MaxWrites <- StoredHints, MaxRetries <- MaxReplays, Refused <- Rejected

ASSUME StorageAssumption ==
  /\ Hits!CacheReadAssumption /\ Segments!CommitLogAssumption /\ Exit!ShutdownAssumption
  /\ Handoff!HintedHandoffAssumption /\ Replay!HintReplayAssumption

\* Whatever StorageService.Read copies from a cached entry is at least as new as the
\* last Put that was complete when CacheService.Get found the entry.
NeverOlder == Hits!NeverOlder

\* What CommitLogService.Append acknowledged is in a file, whatever rotations failed;
\* recovery replays a prefix of what was written, in that order and without a gap,
\* although segments are named by the second in which the one before was opened; and
\* sequence numbers go on increasing after a restart.
LogIsReplayed ==
  Segments!AppendedAreInFiles /\ Segments!ReplaysInOrder /\ Segments!SequenceIncreasing

\* No call that a storage node accepted meets a closed log, and none is running when
\* the process ends.
CallsFinish == Exit!CallsFinish

\* A hint leaves the list of HintedHandoffService only because it was delivered, is
\* too old, was tried too often or had to make room, even while several goroutines
\* work on copies.
DroppedForCause == Handoff!DroppedForCause

\* When ReplayHintsForNode returns without an error, so that the node becomes NORMAL,
\* the node has every hint there was when the replay began and that has not expired.
ReplayedMeansDelivered == Replay!ReplayedMeansDelivered
==============================================================================
