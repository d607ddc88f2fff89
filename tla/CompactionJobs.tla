--------------------------- MODULE CompactionJobs ---------------------------
(***************************************************************************)
(* CompactionService over the levels of SSTableService: the scheduler, the *)
(* bounded queue of jobs, and workers that open the inputs of a job, merge *)
(* them, list the output, unlist the inputs and delete their files, each   *)
(* under its own acquisition of the lock or none.  The scheduler does not  *)
(* know which tables are already in a job.                                 *)
(*                                                                         *)
(* A table is [id, holds]: holds is the set of flushed tables whose data   *)
(* it has (the merge itself is in CompactionMerge); its size is their      *)
(* number.  The order of a level's tables makes no difference here.        *)
(***************************************************************************)
EXTENDS Integers, Sequences, FiniteSets, FiniteSetsExt

CONSTANTS
  Workers,      \* compaction workers
  L0Trigger,    \* number of L0 tables that triggers a compaction
  LevelSize,    \* size thresholds of L1 and L2, and
  Multiplier,   \* LevelMultiplier of the deeper ones
  LastLevel,    \* L4 in the code
  QueueSize,    \* capacity of the queue (100 in the code)
  MaxFlushes,   \* bound: tables flushed
  MaxChecks     \* bound: runs of the scheduler

JobsAssumption ==
  /\ L0Trigger \in Nat \ {0} /\ LevelSize \in [1..2 -> Nat] /\ Multiplier \in Nat
  /\ LastLevel \in 1..4 /\ QueueSize \in Nat \ {0} /\ MaxFlushes \in Nat /\ MaxChecks \in Nat

VARIABLES
  levels,     \* the tables of each level
  files,      \* ids of tables whose files exist
  next,       \* the next id
  flushed,    \* ids of the tables flushed so far
  queue,      \* jobs waiting: [level, input]
  checks,     \* runs of the scheduler
  level,      \* the level the scheduler looks at, or -1 between runs
  due,        \* it has found that the level is to be compacted
  job,        \* the job of each worker
  at,         \* where each worker is
  output,     \* the table each worker has written
  stopped     \* stopChan is closed

vars == <<levels, files, next, flushed, queue, checks, level, due, job, at, output, stopped>>

NoJob == [level |-> 0, input |-> {}]
NoTable == [id |-> 0, holds |-> {}]
Ids(ts) == {t.id : t \in ts}
Holds(ts) == UNION {t.holds : t \in ts}
Size(ts) == MapThenSumSet(LAMBDA t : Cardinality(t.holds), ts)

Init ==
  /\ levels = [l \in 0..LastLevel |-> {}] /\ files = {} /\ next = 1 /\ flushed = {}
  /\ queue = <<>> /\ checks = 0 /\ level = -1 /\ due = FALSE
  /\ job = [w \in Workers |-> NoJob] /\ at = [w \in Workers |-> "idle"]
  /\ output = [w \in Workers |-> NoTable]
  /\ stopped = FALSE

\* A flush adds a table to L0.
Flush ==
  /\ Cardinality(flushed) < MaxFlushes
  /\ levels' = [levels EXCEPT ![0] = @ \cup {[id |-> next, holds |-> {next}]}]
  /\ files' = files \cup {next} /\ next' = next + 1 /\ flushed' = flushed \cup {next}
  /\ UNCHANGED <<queue, checks, level, due, job, at, output, stopped>>

\* getLevelThreshold.
GetLevelThreshold(l) == IF l <= 2 THEN LevelSize[l] ELSE LevelSize[2] * Multiplier ^ (l - 2)

\* shouldCompactLevel; L0 by the number of its tables.
ShouldCompact(l) ==
  IF l = 0 THEN Cardinality(levels[0]) >= L0Trigger ELSE Size(levels[l]) > GetLevelThreshold(l)

\* A job is dropped when the queue is full.
Enqueued(j) == IF Len(queue) < QueueSize THEN Append(queue, j) ELSE queue

\* checkCompactionNeeded goes through the levels but the last.
Tick ==
  /\ level = -1 /\ checks < MaxChecks /\ ~stopped
  /\ level' = 0 /\ checks' = checks + 1
  /\ UNCHANGED <<levels, files, next, flushed, queue, due, job, at, output, stopped>>

Advance == level' = IF level + 1 >= LastLevel THEN -1 ELSE level + 1

CheckL0 ==
  /\ level = 0
  /\ queue' = IF ShouldCompact(0) THEN Enqueued([level |-> 0, input |-> levels[0]]) ELSE queue
  /\ Advance
  /\ UNCHANGED <<levels, files, next, flushed, checks, due, job, at, output, stopped>>

\* shouldCompactLevel looks at the tables of a level,
CheckLevel ==
  /\ level > 0 /\ ~due
  /\ due' = ShouldCompact(level)
  /\ IF due' THEN level' = level ELSE Advance
  /\ UNCHANGED <<levels, files, next, flushed, queue, checks, job, at, output, stopped>>

\* and triggerLevelCompaction looks again.
TriggerLevelCompaction ==
  /\ due /\ due' = FALSE
  /\ queue' = IF levels[level] = {} THEN queue
              ELSE Enqueued([level |-> level, input |-> levels[level]])
  /\ Advance
  /\ UNCHANGED <<levels, files, next, flushed, checks, job, at, output, stopped>>

CheckCompactionNeeded == CheckL0 \/ CheckLevel \/ TriggerLevelCompaction

At(w, from, to) == at[w] = from /\ at' = [at EXCEPT ![w] = to]

\* compactionWorker takes a job, also when both channels are ready.
TakeJob(w) ==
  /\ At(w, "idle", "open") /\ queue # <<>>
  /\ job' = [job EXCEPT ![w] = Head(queue)] /\ queue' = Tail(queue)
  /\ UNCHANGED <<levels, files, next, flushed, checks, level, due, output, stopped>>

\* mergeSSTables opens the inputs; one that is missing fails the job.
OpenInputs(w) ==
  /\ at[w] = "open"
  /\ at' = [at EXCEPT ![w] = IF Ids(job[w].input) \subseteq files THEN "merge" ELSE "idle"]
  /\ UNCHANGED <<levels, files, next, flushed, queue, checks, level, due, job, output, stopped>>

\* The output is written,
MergeTables(w) ==
  /\ At(w, "merge", "add")
  /\ output' = [output EXCEPT ![w] = [id |-> next, holds |-> Holds(job[w].input)]]
  /\ files' = files \cup {next} /\ next' = next + 1
  /\ UNCHANGED <<levels, flushed, queue, checks, level, due, job, stopped>>

\* or writing fails and leaves an unlisted file.
MergeFails(w) ==
  /\ At(w, "merge", "idle")
  /\ files' = files \cup {next} /\ next' = next + 1
  /\ UNCHANGED <<levels, flushed, queue, checks, level, due, job, output, stopped>>

\* AddTable lists it one level down,
AddTable(w) ==
  /\ At(w, "add", "remove")
  /\ levels' = [levels EXCEPT ![job[w].level + 1] = @ \cup {output[w]}]
  /\ UNCHANGED <<files, next, flushed, queue, checks, level, due, job, output, stopped>>

\* Mutant: the level is cleared, with the tables that were flushed meanwhile.
RemoveAll(w) ==
  /\ At(w, "remove", "delete")
  /\ levels' = [levels EXCEPT ![job[w].level] = {}]
  /\ UNCHANGED <<files, next, flushed, queue, checks, level, due, job, output, stopped>>

\* RemoveTables unlists the inputs,
RemoveTables(w) ==
  /\ At(w, "remove", "delete")
  /\ levels' = [levels EXCEPT ![job[w].level] = {t \in @ : t.id \notin Ids(job[w].input)}]
  /\ UNCHANGED <<files, next, flushed, queue, checks, level, due, job, output, stopped>>

\* and their files are deleted.
DeleteFiles(w) ==
  /\ At(w, "delete", "idle")
  /\ files' = files \ Ids(job[w].input)
  /\ UNCHANGED <<levels, next, flushed, queue, checks, level, due, job, output, stopped>>

\* Stop; a worker leaves when it is idle.
Stop ==
  /\ ~stopped /\ stopped' = TRUE
  /\ UNCHANGED <<levels, files, next, flushed, queue, checks, level, due, job, at, output>>

\* Mutant: the signal reaches one worker.
LeaveOne(w) ==
  /\ stopped /\ At(w, "idle", "left") /\ \A v \in Workers : at[v] # "left"
  /\ UNCHANGED <<levels, files, next, flushed, queue, checks, level, due, job, output, stopped>>

Leave(w) ==
  /\ stopped /\ At(w, "idle", "left")
  /\ UNCHANGED <<levels, files, next, flushed, queue, checks, level, due, job, output, stopped>>

Work(w) ==
  \/ TakeJob(w) \/ OpenInputs(w) \/ MergeTables(w) \/ MergeFails(w)
  \/ AddTable(w) \/ RemoveTables(w) \/ DeleteFiles(w) \/ Leave(w)

Next == Flush \/ Tick \/ CheckCompactionNeeded \/ Stop \/ \E w \in Workers : Work(w)

Spec == Init /\ [][Next]_vars /\ WF_vars(CheckCompactionNeeded) /\ \A w \in Workers : WF_vars(Work(w))

------------------------------------------------------------------------------
\* Properties.

Listed == UNION {levels[l] : l \in 0..LastLevel}

\* At every moment the data of each flushed table is in a table that is listed: a
\* reader that goes through the levels between the steps of jobs, also of two over
\* the same inputs, misses nothing.
DataIsListed == Holds(Listed) = flushed

\* The files of the tables that are listed exist.
ListedHaveFiles == \A t \in Listed : t.id \in files

\* Stop returns: every worker leaves.
WorkersLeave == stopped ~> \A w \in Workers : at[w] = "left"
==============================================================================
