---------------------------- MODULE DiskManager -----------------------------
(***************************************************************************)
(* DiskManager of a storage node: writers that ask CheckBeforeWrite        *)
(* concurrently, the cached usage of the disk it decides on, and the disk  *)
(* itself, which admitted writes fill (logs and tables share a disk) and   *)
(* compaction gives space back to.                                         *)
(*                                                                         *)
(* The disk has Total units; a throttled write may take the free units     *)
(* divided by Share (10 in the code).  Usage is compared as                *)
(* used * 100 >= Total * threshold.                                        *)
(***************************************************************************)
EXTENDS RWMutex, Integers, FiniteSets

CONSTANTS
  Total,      \* size of the disk
  Start,      \* free units at the start
  Share,      \* the part of the free units a throttled write may take
  Throttle,   \* throttleThreshold, in percent
  Breaker,    \* circuitBreakerThreshold, in percent
  Sizes,      \* estimated sizes of writes
  Interval,   \* checkInterval
  MaxTime     \* bound: the clock

DiskAssumption ==
  /\ Total \in Nat \ {0} /\ Start \in 0..Total /\ Share \in Nat \ {0}
  /\ Throttle \in 0..100 /\ Breaker \in Throttle..100
  /\ Sizes \subseteq Nat /\ Interval \in Nat /\ MaxTime \in Nat

VARIABLES
  mu,       \* the lock
  free,     \* free units of the disk
  now,      \* the clock
  cache,    \* [free, broken, throttled, at, seen]: the cached usage, the flags, lastCheck,
            \* and when the usage was measured (not in the code)
  pc,       \* where each writer is
  size,     \* what it wants to write
  call      \* [at, failed]: when its call began, and whether its check failed

vars == <<mu, free, now, cache, pc, size, call>>

\* The clock starts late enough for the zero value of lastCheck to be stale.
Zero == -1 - Interval

Broken(f) == (Total - f) * 100 >= Total * Breaker
Throttled(f) == (Total - f) * 100 >= Total * Throttle /\ ~Broken(f)

\* checkDiskSpace, when the file system has statistics.
Measured(f) == [free |-> f, broken |-> Broken(f), throttled |-> Throttled(f), at |-> now, seen |-> now]

Init ==
  /\ mu = Unlocked /\ free = Start /\ now = 0
  /\ cache \in {[free |-> 0, broken |-> FALSE, throttled |-> FALSE, at |-> Zero, seen |-> Zero],
                [free |-> Start, broken |-> Broken(Start), throttled |-> Throttled(Start), at |-> 0, seen |-> 0]}
  /\ pc = [p \in Procs |-> "idle"]
  /\ size = [p \in Procs |-> 0]
  /\ call = [p \in Procs |-> [at |-> 0, failed |-> FALSE]]

At(p, from, to) == pc[p] = from /\ pc' = [pc EXCEPT ![p] = to]

\* CheckBeforeWrite takes the lock and looks at the age of the cache,
Begin(p, n) ==
  /\ CanRLock(mu)
  /\ At(p, "idle", IF now - cache.at > Interval THEN "stale" ELSE "decide")
  /\ mu' = RLocked(mu, p)
  /\ size' = [size EXCEPT ![p] = n]
  /\ call' = [call EXCEPT ![p] = [at |-> now, failed |-> FALSE]]
  /\ UNCHANGED <<free, now, cache>>

\* exchanges the lock for the write lock when it is stale,
Upgrade(p) ==
  /\ At(p, "stale", "want")
  /\ mu' = RUnlocked(mu, p)
  /\ UNCHANGED <<free, now, cache, size, call>>

Announce(p) ==
  /\ CanAnnounce(mu) /\ At(p, "want", "wait")
  /\ mu' = Announced(mu, p)
  /\ UNCHANGED <<free, now, cache, size, call>>

Enter(p) ==
  /\ CanEnter(mu, p) /\ At(p, "wait", "check")
  /\ mu' = Entered(mu)
  /\ UNCHANGED <<free, now, cache, size, call>>

\* checks the disk,
CheckDiskSpace(p) ==
  /\ At(p, "check", "again")
  /\ cache' = Measured(free)
  /\ mu' = WUnlocked(mu)
  /\ UNCHANGED <<free, now, size, call>>

\* Mutant: a check that failed counts as one.
CheckCounts(p) ==
  /\ At(p, "check", "again")
  /\ cache' = [cache EXCEPT !.at = now]
  /\ mu' = WUnlocked(mu)
  /\ call' = [call EXCEPT ![p].failed = TRUE]
  /\ UNCHANGED <<free, now, size>>

\* without success when there are no statistics,
CheckFails(p) ==
  /\ At(p, "check", "again")
  /\ mu' = WUnlocked(mu)
  /\ call' = [call EXCEPT ![p].failed = TRUE]
  /\ UNCHANGED <<free, now, cache, size>>

\* takes the lock again,
Again(p) ==
  /\ CanRLock(mu) /\ At(p, "again", "decide")
  /\ mu' = RLocked(mu, p)
  /\ UNCHANGED <<free, now, cache, size, call>>

\* and decides on the cache.
Admits(n) ==
  /\ ~cache.broken
  /\ cache.throttled => n <= cache.free \div Share
  /\ n <= cache.free

Decide(p) ==
  /\ At(p, "decide", IF Admits(size[p]) THEN "write" ELSE "idle")
  /\ mu' = RUnlocked(mu, p)
  /\ UNCHANGED <<free, now, cache, size, call>>

\* The write of StorageService that was admitted; it fails on a full disk.
Write(p) ==
  /\ At(p, "write", "idle")
  /\ free' = IF size[p] <= free THEN free - size[p] ELSE free
  /\ UNCHANGED <<mu, now, cache, size, call>>

\* Compaction gives space back.
Reclaim ==
  /\ free < Start /\ free' = Start
  /\ UNCHANGED <<mu, now, cache, pc, size, call>>

Tick ==
  /\ now < MaxTime /\ now' = now + 1
  /\ UNCHANGED <<mu, free, cache, pc, size, call>>

Step(p) ==
  \/ Upgrade(p) \/ Announce(p) \/ Enter(p) \/ CheckDiskSpace(p) \/ CheckFails(p)
  \/ Again(p) \/ Decide(p) \/ Write(p)

Next == Reclaim \/ Tick \/ \E p \in Procs : Step(p) \/ \E n \in Sizes : Begin(p, n)

\* A writer that can go on does, and the lock is not withheld from it for ever:
\* sync.RWMutex lets waiting readers in after a writer and starves no writer.
Spec == Init /\ [][Next]_vars /\ \A p \in Procs : WF_vars(Step(p)) /\ SF_vars(Announce(p)) /\ SF_vars(Again(p))

------------------------------------------------------------------------------
\* Properties.

\* A write is decided on a usage that was measured at most an interval before the
\* call began, unless its own check failed: calls that overlap, and checks of others
\* that fail, do not make it older.
FreshDecisions ==
  \A p \in Procs : pc[p] = "decide" /\ ~call[p].failed => call[p].at - cache.seen <= Interval

------------------------------------------------------------------------------
\* What the documentation or a comment says, and this code does not do: TLC finds
\* a counterexample to each of these.

\* No write is admitted when the disk is used beyond the threshold of the breaker.
StopsAtBreaker == [][ \A p \in Procs : pc[p] = "decide" /\ pc'[p] = "write" => ~Broken(free) ]_vars
==============================================================================
