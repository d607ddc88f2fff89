---------------------------- MODULE ServiceParts -----------------------------
(***************************************************************************)
(* Services of a storage node: the worker pool, the disk manager, the      *)
(* probes and the compaction jobs. They share no state with one another;   *)
(* each is an instance of its module.                                      *)
(***************************************************************************)
EXTENDS Integers, Sequences, FiniteSets

CONSTANTS
  Tasks, PoolWorkers, Stoppers, PoolQueue,                \* WorkerPool
  Writers, NoWriter, Total, FreeAtStart, Share, Throttle, Breaker, Sizes, Interval,
  DiskTime,                                               \* DiskManager
  Probers, Goroutines, Nobody, Usages, HealthRuns, MaxProbes,  \* HealthCheck
  Compactors, L0Trigger, LevelSize, Multiplier, LastLevel, JobQueue,
  MaxFlushes, MaxRuns                                     \* CompactionJobs

VARIABLES
  taskQueue, poolStopped, submission, poolWorker, finished, stop, once, counters,
  diskLock, free, now, cache, writer, size, call,
  probeLock, goroutine, status, ready, checks, listening, saw, answers,
  levels, files, next, flushed, queue, runs, level, levelDue, job, doing, output, stopped

Pool == INSTANCE WorkerPool WITH
  Workers <- PoolWorkers, QueueSize <- PoolQueue, queue <- taskQueue,
  stopped <- poolStopped, call <- submission, worker <- poolWorker

Disk == INSTANCE DiskManager WITH
  Procs <- Writers, NoProc <- NoWriter, Start <- FreeAtStart, MaxTime <- DiskTime,
  mu <- diskLock, pc <- writer

Health == INSTANCE HealthCheck WITH
  Procs <- Goroutines, NoProc <- Nobody, MaxChecks <- HealthRuns, mu <- probeLock,
  pc <- goroutine

Jobs == INSTANCE CompactionJobs WITH
  Workers <- Compactors, QueueSize <- JobQueue, MaxChecks <- MaxRuns,
  checks <- runs, due <- levelDue, at <- doing

ASSUME ServiceAssumption ==
  /\ Pool!PoolAssumption /\ Disk!DiskAssumption /\ Disk!RWMutexAssumption
  /\ Health!HealthAssumption /\ Health!RWMutexAssumption /\ Jobs!JobsAssumption

\* However submissions, workers and Stop interleave, a task that was accepted is
\* queued, run or finished, in one place and once, and a refused one nowhere; and once
\* Stop has reported a graceful stop, no worker runs a task.
TasksAreKept == Pool!TaskInOnePlace /\ Pool!GracefulMeansQuiet

\* CheckBeforeWrite decides on a usage that was measured at most an interval before
\* the call began, unless its own check failed: calls that overlap, and checks of
\* others that fail, do not make it older.
FreshDecisions == Disk!FreshDecisions

\* The readiness and the status of a probe's answer are of the same run of the
\* checks: only the call of main after the start makes a node ready whose status is
\* unhealthy, and none is unready with another status.
AnswersAreOfOneCheck == Health!AnswersAreOfOneCheck

\* Compaction loses nothing: between the steps of jobs, also of two over the same
\* inputs, the data of every flushed table is in a listed table whose file exists.
CompactionLosesNothing == Jobs!DataIsListed /\ Jobs!ListedHaveFiles
==============================================================================
