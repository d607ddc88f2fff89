---------------------------- MODULE StorageEngine ----------------------------
(***************************************************************************)
(* The storage engine of one storage node (storage-node/internal/service): *)
(* StorageService.Write / Read / Delete / Repair over the commit log, the  *)
(* memtable and its immutable predecessor, the L0 SSTables and the cache.  *)
(*                                                                         *)
(* A request is a sequence of steps; each step is what the code does under *)
(* one lock (CommitLogService.mu, MemTableService.mu, CacheService.mu,     *)
(* SSTableService.mu), and requests, the flush and compaction interleave   *)
(* between them.  Every mutation carries a fresh number, op, that stands   *)
(* for its value and its vector clock; a key is the composite              *)
(* "tenant:key" of buildKey.                                               *)
(*                                                                         *)
(* Left out: requests refused before the commit log (validation, the disk  *)
(* check), which change none of this state, read errors on an SSTable, and *)
(* streaming (InterceptWrite).  sync_writes is on, as in config.yaml.      *)
(***************************************************************************)
EXTENDS Naturals, Sequences, FiniteSets

CONSTANTS
  Keys,            \* composite keys
  Clients,         \* goroutines serving requests
  Workload,        \* the <<client, key, kind>> a request may be
  None,            \* no entry
  FlushThreshold,  \* memtable size, in entries put, that triggers a flush
  QueueSize,       \* capacity of the worker pool's task queue
  MaxWorkers,      \* workers of the pool
  L0Trigger,       \* number of L0 tables that triggers a compaction
  LogFaults,       \* how an append may fail: {"refused", "torn", "sync"}
  FlushMayFail,    \* WriteFromMemTable may return an error
  CompactionOn,    \* the compaction service runs
  TickPerOp,       \* environment: no two mutations start in the same second
  MaxTime,         \* bound on the clock
  MaxOps,          \* bound on the mutations
  MaxCrashes       \* bound on the crashes

Kinds == {"write", "repair", "delete", "read"}
Mutations == {"write", "repair", "delete"}

\* MemTableEntry: the value (op), the timestamp in seconds, the tombstone flag.
Entry == [op : Nat, ts : Nat, del : BOOLEAN]
MaybeEntry == Entry \cup {None}

ASSUME EngineAssumption ==
  /\ Workload \subseteq Clients \X Keys \X Kinds
  /\ None \notin Entry /\ None \notin Nat
  /\ None \notin Clients /\ None \notin Keys
  /\ "pool" \notin Clients /\ None # "pool"
  /\ FlushThreshold \in Nat \ {0}
  /\ QueueSize \in Nat /\ MaxWorkers \in Nat \ {0} /\ L0Trigger \in Nat \ {0}
  /\ LogFaults \subseteq {"refused", "torn", "sync"}
  /\ FlushMayFail \in BOOLEAN /\ CompactionOn \in BOOLEAN
  /\ TickPerOp \in BOOLEAN
  /\ MaxTime \in Nat /\ MaxOps \in Nat /\ MaxCrashes \in Nat

VARIABLES
  clock,        \* time.Now().Unix()
  ops,          \* mutations started
  log,          \* the lines of the commit log segments, in replay order
  torn,         \* the current segment ends in an unfinished line
  tears,        \* history: the appends that left an unfinished line
  memTable,     \* MemTableService.memTable
  memSize,      \* memTable.size, in entries put
  immutableMT,  \* MemTableService.immutableMT (nil: no key)
  tables,       \* SSTables written since the start, the next SSTable id
  L0,           \* SSTableService.levels[L0]: a set ordered by id
  cache,        \* CacheService.cache: the op cached for a key
  pc,           \* where each client is
  req,          \* the request each client serves
  flush,        \* the flush in progress: who holds flushMu, and where it is
  flushTasks,   \* flush tasks submitted to the pool and not started
  compactJobs,  \* compaction jobs queued or running: their input ids
  acked,        \* history: the mutations answered with success
  crashes       \* history: the crashes so far

vars == <<clock, ops, log, torn, tears, memTable, memSize, immutableMT, tables,
          L0, cache, pc, req, flush, flushTasks, compactJobs, acked, crashes>>
logVars == <<log, torn, tears>>
memVars == <<memTable, memSize, immutableMT>>
tableVars == <<tables, L0, compactJobs>>
flushVars == <<flush, flushTasks>>
histVars == <<acked, crashes>>
timeVars == <<clock, ops>>

NoEntries == [k \in Keys |-> None]
NewReq(kind, k, op, ts, must) ==
  [kind |-> kind, key |-> k, op |-> op, ts |-> ts, found |-> None, must |-> must]
NoReq == NewReq("none", None, 0, 0, FALSE)
NoFlush == [owner |-> None, at |-> "free"]
Pool == "pool"

\* A commit log line.  ok: it parses and its checksum matches on replay.
Line == [key : Keys, op : Nat, ts : Nat, del : BOOLEAN, ok : BOOLEAN]

Init ==
  /\ clock = 1 /\ ops = 0
  /\ log = <<>> /\ torn = FALSE /\ tears = 0
  /\ memTable = NoEntries /\ memSize = 0 /\ immutableMT = NoEntries
  /\ tables = 0 /\ L0 = {} /\ compactJobs = {}
  /\ cache = NoEntries
  /\ pc = [c \in Clients |-> "idle"] /\ req = [c \in Clients |-> NoReq]
  /\ flush = NoFlush /\ flushTasks = 0
  /\ acked = {} /\ crashes = 0

EntryOf(r) == [op |-> r.op, ts |-> r.ts, del |-> r.del]
ReqEntry(r) == [op |-> r.op, ts |-> r.ts, del |-> r.kind = "delete"]

Goto(c, l) == pc' = [pc EXCEPT ![c] = l] /\ UNCHANGED req
Return(c) == pc' = [pc EXCEPT ![c] = "idle"] /\ req' = [req EXCEPT ![c] = NoReq]
Ack(c) == acked' = acked \cup {[key |-> req[c].key, op |-> req[c].op]}

------------------------------------------------------------------------------
\* Mutations.

\* The timestamp is taken before the append, outside its lock.
BeginMutation(c, k, kind) ==
  /\ pc[c] = "idle" /\ <<c, k, kind>> \in Workload /\ kind \in Mutations
  /\ ops < MaxOps
  /\ ops' = ops + 1
  /\ clock' = IF TickPerOp THEN clock + 1 ELSE clock
  /\ pc' = [pc EXCEPT ![c] = "append"]
  /\ req' = [req EXCEPT ![c] = NewReq(kind, k, ops + 1, clock, FALSE)]
  /\ UNCHANGED <<logVars, memVars, tableVars, cache, flushVars, histVars>>

\* Mutant: no append ends the unfinished line.
AppendLineStaysTorn(r) ==
  /\ log' = Append(log, [key |-> r.key, op |-> r.op, ts |-> r.ts,
                         del |-> r.kind = "delete", ok |-> ~torn])
  /\ UNCHANGED <<torn, tears>>

\* A line written after an unfinished one is glued to it and is unreadable.
AppendLine(r) ==
  /\ log' = Append(log, [key |-> r.key, op |-> r.op, ts |-> r.ts,
                         del |-> r.kind = "delete", ok |-> ~torn])
  /\ torn' = FALSE /\ UNCHANGED tears

\* Mutant: the error of Append is ignored.
LogAppendErrorIgnored(c) ==
  /\ pc[c] = "append" /\ UNCHANGED logVars
  /\ Goto(c, "mem")
  /\ UNCHANGED <<memVars, tableVars, cache, flushVars, histVars, timeVars>>

LogAppend(c) ==
  /\ pc[c] = "append"
  /\ AppendLine(req[c])
  /\ Goto(c, "mem")
  /\ UNCHANGED <<memVars, tableVars, cache, flushVars, histVars, timeVars>>

\* Nothing is written (the segment file was closed by a rotation that failed).
LogAppendRefused(c) ==
  /\ pc[c] = "append" /\ "refused" \in LogFaults
  /\ Return(c)
  /\ UNCHANGED <<logVars, memVars, tableVars, cache, flushVars, histVars,
                 timeVars>>

\* The write stops half way (a full disk): an unfinished line is left, and no
\* line feed.
LogAppendTorn(c) ==
  /\ pc[c] = "append" /\ "torn" \in LogFaults
  /\ torn' = TRUE /\ tears' = tears + 1 /\ UNCHANGED log
  /\ Return(c)
  /\ UNCHANGED <<memVars, tableVars, cache, flushVars, histVars, timeVars>>

\* The line is written but Sync fails: the request fails, the line stays.
LogAppendSyncFails(c) ==
  /\ pc[c] = "append" /\ "sync" \in LogFaults
  /\ AppendLine(req[c])
  /\ Return(c)
  /\ UNCHANGED <<memVars, tableVars, cache, flushVars, histVars, timeVars>>

MemPut(c) ==
  /\ pc[c] = "mem"
  /\ memTable' = [memTable EXCEPT ![req[c].key] = ReqEntry(req[c])]
  /\ memSize' = memSize + 1
  /\ Goto(c, "cache")
  /\ UNCHANGED <<logVars, immutableMT, tableVars, cache, flushVars, histVars,
                 timeVars>>

\* A new key may evict any others; an existing one is updated in place.
CachePut(k, op) ==
  \E evicted \in SUBSET (Keys \ {k}) :
    /\ cache[k] # None => evicted = {}
    /\ cache' = [x \in Keys |-> IF x = k THEN op
                                ELSE IF x \in evicted THEN None ELSE cache[x]]

WriteCache(c) ==
  /\ pc[c] = "cache" /\ req[c].kind = "write"
  /\ CachePut(req[c].key, req[c].op)
  /\ Goto(c, "check")
  /\ UNCHANGED <<logVars, memVars, tableVars, flushVars, histVars, timeVars>>

\* Repair and Delete return without the flush check.
RepairCache(c) ==
  /\ pc[c] = "cache" /\ req[c].kind = "repair"
  /\ CachePut(req[c].key, req[c].op)
  /\ Ack(c) /\ Return(c)
  /\ UNCHANGED <<logVars, memVars, tableVars, flushVars, crashes, timeVars>>

DeleteCache(c) ==
  /\ pc[c] = "cache" /\ req[c].kind = "delete"
  /\ cache' = [cache EXCEPT ![req[c].key] = None]
  /\ Ack(c) /\ Return(c)
  /\ UNCHANGED <<logVars, memVars, tableVars, flushVars, crashes, timeVars>>

ShouldFlush == memSize >= FlushThreshold

NoFlushNeeded(c) ==
  /\ pc[c] = "check" /\ ~ShouldFlush
  /\ Ack(c) /\ Return(c)
  /\ UNCHANGED <<logVars, memVars, tableVars, cache, flushVars, crashes,
                 timeVars>>

\* Mutant: a flush is triggered and the task is dropped.
SubmitFlushDropped(c) ==
  /\ pc[c] = "check" /\ ShouldFlush
  /\ Ack(c) /\ Return(c)
  /\ UNCHANGED <<logVars, memVars, tableVars, cache, flushVars, crashes,
                 timeVars>>

\* triggerFlushAsync: TrySubmit.  Whether the workers have already taken the
\* queued tasks off the channel is not tracked, so between QueueSize and
\* QueueSize + MaxWorkers tasks both outcomes are possible.
RunningTasks == IF flush.owner = Pool THEN 1 ELSE 0
SubmitFlush(c) ==
  /\ pc[c] = "check" /\ ShouldFlush
  /\ flushTasks + RunningTasks < QueueSize + MaxWorkers
  /\ flushTasks' = flushTasks + 1
  /\ Ack(c) /\ Return(c)
  /\ UNCHANGED <<logVars, memVars, tableVars, cache, flush, crashes, timeVars>>

InlineFlush(c) ==
  /\ pc[c] = "check" /\ ShouldFlush
  /\ flushTasks >= QueueSize
  /\ Goto(c, "flushMu")
  /\ UNCHANGED <<logVars, memVars, tableVars, cache, flushVars, histVars,
                 timeVars>>

------------------------------------------------------------------------------
\* MemTableService.Flush, run by a pool worker or inline by a client.

Flushers == {Pool} \cup Clients

\* Mutant: a worker runs Flush without a task.
FlushCalledWithoutTask(o) ==
  IF o = Pool THEN flushTasks' = flushTasks - 1
  ELSE pc[o] = "flushMu" /\ UNCHANGED flushTasks

\* The caller o of Flush gets flushMu.
FlushCalled(o) ==
  IF o = Pool
  THEN flushTasks > 0 /\ flushTasks' = flushTasks - 1
  ELSE pc[o] = "flushMu" /\ UNCHANGED flushTasks

\* Flush returns to o; the writer that ran it inline answers success whatever
\* the flush returned.
FlushReturns(o) ==
  IF o = Pool THEN UNCHANGED <<pc, req, acked>> ELSE Ack(o) /\ Return(o)

FlushEmpty(o) ==
  /\ flush = NoFlush /\ FlushCalled(o) /\ memSize = 0
  /\ FlushReturns(o)
  /\ UNCHANGED <<logVars, memVars, tableVars, cache, flush, crashes, timeVars>>

FlushSwap(o) ==
  /\ flush = NoFlush /\ FlushCalled(o) /\ memSize > 0
  /\ immutableMT' = memTable /\ memTable' = NoEntries /\ memSize' = 0
  /\ flush' = [owner |-> o, at |-> "write"]
  /\ IF o = Pool THEN UNCHANGED <<pc, req>> ELSE Goto(o, "flushing")
  /\ UNCHANGED <<logVars, tableVars, cache, histVars, timeVars>>

\* Mutant: tombstones are left out of the table.
FlushWriteDropsTombstones ==
  /\ flush.at = "write"
  /\ tables' = tables + 1
  /\ L0' = L0 \cup {[id |-> tables + 1,
                     data |-> [k \in Keys |->
                                IF immutableMT[k] # None /\ immutableMT[k].del
                                THEN None ELSE immutableMT[k]]]}
  /\ flush' = [flush EXCEPT !.at = "clear"]
  /\ UNCHANGED <<logVars, memVars, compactJobs, cache, pc, req, flushTasks,
                 histVars, timeVars>>

\* WriteFromMemTable adds the table to level 0 under the lock Get takes.
FlushWrite ==
  /\ flush.at = "write"
  /\ tables' = tables + 1
  /\ L0' = L0 \cup {[id |-> tables + 1, data |-> immutableMT]}
  /\ flush' = [flush EXCEPT !.at = "clear"]
  /\ UNCHANGED <<logVars, memVars, compactJobs, cache, pc, req, flushTasks,
                 histVars, timeVars>>

\* The error is returned with immutableMT still set; nothing retries it.
FlushWriteFails ==
  /\ flush.at = "write" /\ FlushMayFail
  /\ flush' = NoFlush
  /\ FlushReturns(flush.owner)
  /\ UNCHANGED <<logVars, memVars, tableVars, cache, flushTasks, crashes,
                 timeVars>>

\* Mutant: flushMu is not released.
FlushClearKeepsLock ==
  /\ flush.at = "clear"
  /\ immutableMT' = NoEntries
  /\ flush' = [flush EXCEPT !.at = "free"]
  /\ FlushReturns(flush.owner)
  /\ UNCHANGED <<logVars, memTable, memSize, tableVars, cache, flushTasks,
                 crashes, timeVars>>

FlushClear ==
  /\ flush.at = "clear"
  /\ immutableMT' = NoEntries
  /\ flush' = NoFlush
  /\ FlushReturns(flush.owner)
  /\ UNCHANGED <<logVars, memTable, memSize, tableVars, cache, flushTasks,
                 crashes, timeVars>>

------------------------------------------------------------------------------
\* StorageService.Read.

\* A cache hit answers at once (only access statistics change).
ReadHit(c, k) ==
  /\ pc[c] = "idle" /\ <<c, k, "read">> \in Workload
  /\ cache[k] # None
  /\ UNCHANGED vars

\* must: the key has an acknowledged mutation when the read starts.
ReadCache(c, k) ==
  /\ pc[c] = "idle" /\ <<c, k, "read">> \in Workload
  /\ cache[k] = None
  /\ pc' = [pc EXCEPT ![c] = "rmem"]
  /\ req' = [req EXCEPT ![c] =
               NewReq("read", k, 0, 0, \E a \in acked : a.key = k)]
  /\ UNCHANGED <<logVars, memVars, tableVars, cache, flushVars, histVars,
                 timeVars>>

\* Mutant: the immutable memtable is not looked up.
MemGetCurrentOnly(k) == memTable[k]

\* MemTableService.Get: both memtables under one lock.
MemGet(k) == IF memTable[k] # None THEN memTable[k] ELSE immutableMT[k]

InLevels(k) == \E t \in L0 : t.data[k] # None

\* Mutant: the first table that has the key wins.
BetterFirst(t, u, k) == t.id <= u.id

\* SSTableService.Get keeps the entry with the greatest timestamp, and the first
\* one found of those with equal timestamps: tables are searched in the order
\* they were added.
Better(t, u, k) == \/ t.data[k].ts > u.data[k].ts
                   \/ t.data[k].ts = u.data[k].ts /\ t.id <= u.id
IsLatest(t, k) ==
  /\ t.data[k] # None
  /\ \A u \in L0 : u.data[k] # None => Better(t, u, k)

\* What a lookup that found e does: a tombstone ends the read as not found.
Found(c, e) ==
  IF e.del THEN Return(c)
  ELSE /\ pc' = [pc EXCEPT ![c] = "rfill"]
       /\ req' = [req EXCEPT ![c].found = e]

ReadMem(c) ==
  /\ pc[c] = "rmem"
  /\ IF MemGet(req[c].key) = None THEN Goto(c, "rsst")
     ELSE Found(c, MemGet(req[c].key))
  /\ UNCHANGED <<logVars, memVars, tableVars, cache, flushVars, histVars,
                 timeVars>>

ReadSSTables(c) ==
  /\ pc[c] = "rsst"
  /\ \/ ~InLevels(req[c].key) /\ Return(c)
     \/ \E t \in L0 : /\ IsLatest(t, req[c].key)
                      /\ Found(c, t.data[req[c].key])
  /\ UNCHANGED <<logVars, memVars, tableVars, cache, flushVars, histVars,
                 timeVars>>

ReadFill(c) ==
  /\ pc[c] = "rfill"
  /\ CachePut(req[c].key, req[c].found.op)
  /\ Return(c)
  /\ UNCHANGED <<logVars, memVars, tableVars, flushVars, histVars, timeVars>>

------------------------------------------------------------------------------
\* Compaction of level 0.  The output table carries no KeyRange, so Get never
\* looks into it (keyInRange of a key against "" and ""): what is left of a
\* compaction here is that the inputs leave the level.

CheckCompaction ==
  /\ CompactionOn /\ Cardinality(L0) >= L0Trigger
  /\ compactJobs' = compactJobs \cup {{t.id : t \in L0}}
  /\ UNCHANGED <<logVars, memVars, tables, L0, cache, pc, req, flushVars,
                 histVars, timeVars>>

\* The job fails when an input file is gone (another job deleted it).
CompactFails(j) ==
  /\ j \in compactJobs
  /\ compactJobs' = compactJobs \ {j}
  /\ UNCHANGED <<logVars, memVars, tables, L0, cache, pc, req, flushVars,
                 histVars, timeVars>>

RemoveTables(j) ==
  /\ j \in compactJobs
  /\ L0' = {t \in L0 : t.id \notin j}
  /\ compactJobs' = compactJobs \ {j}
  /\ UNCHANGED <<logVars, memVars, tables, cache, pc, req, flushVars, histVars,
                 timeVars>>

------------------------------------------------------------------------------
\* checkRotation opens a new segment: an unfinished line stays alone at the end
\* of the old one.  Rotation changes nothing else that replay reads.
Rotate ==
  /\ torn /\ torn' = FALSE
  /\ UNCHANGED <<log, tears, memVars, tableVars, cache, pc, req, flushVars,
                 histVars, timeVars>>

\* Crash and restart.  Everything but the commit log is in memory: levels are
\* not loaded from disk and segments are never truncated, so Recover replays
\* every readable line into an empty memtable before requests are served.  A
\* new segment is opened, so an unfinished line stays alone in the old one.

LinesOf(k) == {i \in DOMAIN log : log[i].ok /\ log[i].key = k}
LastOf(S) == CHOOSE i \in S : \A j \in S : j <= i
\* Mutants: the last line is not replayed; segments are replayed newest first.
RecoveredAllButLast ==
  [k \in Keys |-> IF LinesOf(k) \ {Len(log)} = {} THEN None
                  ELSE EntryOf(log[LastOf(LinesOf(k) \ {Len(log)})])]
RecoveredFirst ==
  [k \in Keys |-> IF LinesOf(k) = {} THEN None
                  ELSE EntryOf(log[CHOOSE i \in LinesOf(k) :
                                     \A j \in LinesOf(k) : i <= j])]

Recovered == [k \in Keys |-> IF LinesOf(k) = {} THEN None
                             ELSE EntryOf(log[LastOf(LinesOf(k))])]

Crash ==
  /\ crashes < MaxCrashes /\ crashes' = crashes + 1
  /\ memTable' = Recovered
  /\ memSize' = Cardinality({i \in DOMAIN log : log[i].ok})
  /\ immutableMT' = NoEntries
  /\ tables' = 0 /\ L0' = {} /\ compactJobs' = {}
  /\ cache' = NoEntries
  /\ pc' = [c \in Clients |-> "idle"] /\ req' = [c \in Clients |-> NoReq]
  /\ flush' = NoFlush /\ flushTasks' = 0
  /\ torn' = FALSE
  /\ UNCHANGED <<log, tears, acked, timeVars>>

Tick ==
  /\ ~TickPerOp /\ clock < MaxTime
  /\ clock' = clock + 1
  /\ UNCHANGED <<ops, logVars, memVars, tableVars, cache, pc, req, flushVars,
                 histVars>>

------------------------------------------------------------------------------
\* The steps of a request that has started.
ClientStep(c) ==
  \/ LogAppend(c)
  \/ LogAppendRefused(c) \/ LogAppendTorn(c) \/ LogAppendSyncFails(c)
  \/ MemPut(c)
  \/ WriteCache(c) \/ RepairCache(c) \/ DeleteCache(c)
  \/ NoFlushNeeded(c) \/ SubmitFlush(c) \/ InlineFlush(c)
  \/ ReadMem(c) \/ ReadSSTables(c) \/ ReadFill(c)

FlushStep ==
  \/ \E o \in Flushers : FlushEmpty(o) \/ FlushSwap(o)
  \/ FlushWrite \/ FlushWriteFails \/ FlushClear

CompactionStep ==
  \/ CheckCompaction
  \/ \E j \in compactJobs : CompactFails(j) \/ RemoveTables(j)

Next ==
  \/ \E c \in Clients, k \in Keys, kind \in Mutations : BeginMutation(c, k, kind)
  \/ \E c \in Clients, k \in Keys : ReadHit(c, k) \/ ReadCache(c, k)
  \/ \E c \in Clients : ClientStep(c)
  \/ FlushStep
  \/ CompactionStep
  \/ Rotate
  \/ Crash
  \/ Tick

Spec == Init /\ [][Next]_vars

\* Goroutines run until they block; sync.Mutex hands itself to a waiter that
\* has waited too long, so nobody waits for flushMu for ever.
FairSpec ==
  /\ Spec
  /\ \A c \in Clients : WF_vars(ClientStep(c))
  /\ \A o \in Flushers : SF_vars(FlushEmpty(o) \/ FlushSwap(o))
  /\ WF_vars(FlushWrite \/ FlushWriteFails)
  /\ WF_vars(FlushClear)

------------------------------------------------------------------------------
PCs == {"idle", "append", "mem", "cache", "check", "flushMu", "flushing",
        "rmem", "rsst", "rfill"}
Request == [kind : Kinds \cup {"none"}, key : Keys \cup {None}, op : Nat,
            ts : Nat, found : MaybeEntry, must : BOOLEAN]
MemTables == [Keys -> MaybeEntry]

\* Every variable has its type: the state the Go structs can hold.
TypeOK ==
  /\ clock \in Nat /\ ops \in Nat
  /\ log \in Seq(Line) /\ torn \in BOOLEAN /\ tears \in Nat
  /\ memTable \in MemTables /\ memSize \in Nat /\ immutableMT \in MemTables
  /\ tables \in Nat /\ L0 \subseteq [id : Nat, data : MemTables]
  /\ compactJobs \subseteq SUBSET Nat
  /\ cache \in [Keys -> Nat \cup {None}]
  /\ pc \in [Clients -> PCs] /\ req \in [Clients -> Request]
  /\ flush \in [owner : Flushers \cup {None}, at : {"free", "write", "clear"}]
  /\ flushTasks \in Nat
  /\ acked \subseteq [key : Keys, op : Nat] /\ crashes \in Nat

Logged(k, op) == \E i \in LinesOf(k) : log[i].op = op

\* Write-ahead: whatever a read can be served from (memtables, SSTables,
\* cache), and every mutation answered with success, is a line of the commit
\* log that replay will read.  Write, Delete and Repair append first.
WriteAhead ==
  /\ \A k \in Keys :
       /\ memTable[k] # None => Logged(k, memTable[k].op)
       /\ immutableMT[k] # None => Logged(k, immutableMT[k].op)
       /\ \A t \in L0 : t.data[k] # None => Logged(k, t.data[k].op)
       /\ cache[k] # None => Logged(k, cache[k])
  /\ \A a \in acked : Logged(a.key, a.op)

\* A read that has missed the cache and both memtables, of a key that had an
\* acknowledged mutation when it started, finds the key in the SSTables: the
\* flush publishes the table before it drops immutableMT, and a reader looks
\* in the order in which entries move.
NoFalseMiss ==
  \A c \in Clients : pc[c] = "rsst" /\ req[c].must => InLevels(req[c].key)

\* A key with an acknowledged mutation is in a memtable or in a table of level
\* 0 at every moment, the two windows of a flush and restarts included.
NothingForgotten ==
  \A a \in acked : MemGet(a.key) # None \/ InLevels(a.key)

\* A restart keeps every acknowledged mutation whose line can be read: Recover
\* leaves the key with that mutation or with one logged after it, whatever
\* failed flushes and compactions had dropped from memory before.
RecoveryKeepsAcked ==
  [][crashes' > crashes =>
       \A a \in acked : Logged(a.key, a.op) =>
         \E i, j \in LinesOf(a.key) :
           /\ log[i].op = a.op /\ i <= j
           /\ memTable'[a.key] = EntryOf(log[j])]_vars

\* An append that stops half way costs at most one acknowledged mutation, the
\* one whose line is glued to the unfinished one.
TornDamageBounded ==
  Cardinality({a \in acked : ~Logged(a.key, a.op)}) <= tears

Quiet(k) == \A c \in Clients : req[c].key = k => req[c].kind \notin Mutations
SSTableGet(k) == IF InLevels(k) THEN (CHOOSE t \in L0 : IsLatest(t, k)).data[k]
                 ELSE None
StoreGet(k) == IF MemGet(k) # None THEN MemGet(k) ELSE SSTableGet(k)

\* While no mutation of a key is in flight, a lookup below the cache finds
\* exactly what a restart would recover, wherever flushes have put the
\* versions of the key.
StoreFresh == \A k \in Keys : Quiet(k) => StoreGet(k) = Recovered[k]

\* Below its cache the engine is a key-value store: what a lookup finds changes
\* when a mutation is put in the memtable and at a restart, never by a flush,
\* and success is answered when the mutation is durable and visible.
ViewOf(k) == IF StoreGet(k) = None THEN None
             ELSE [key |-> k, op |-> StoreGet(k).op, del |-> StoreGet(k).del]
HistoryOf == [i \in DOMAIN log |->
                [key |-> log[i].key, op |-> log[i].op, del |-> log[i].del]]
Store == INSTANCE KeyValueStore WITH
           Ops <- 1..MaxOps, history <- HistoryOf,
           view <- [k \in Keys |-> ViewOf(k)]
ImplementsStore == Store!Spec

\* Every request returns: no lock or flush makes it wait for ever.
RequestsReturn == \A c \in Clients : pc[c] # "idle" ~> pc[c] = "idle"

\* A memtable that has reached the threshold is eventually flushed.
FullMemTableFlushed == ShouldFlush ~> ~ShouldFlush

------------------------------------------------------------------------------
\* What the documents say of the engine, where the code disagrees.

\* docs/storage-node/design.md:19, "High durability (commit log ensures data
\* persistence)": every acknowledged mutation can be replayed.
AckedDurable == \A a \in acked : Logged(a.key, a.op)

\* docs/storage-node/design.md:398, "Search SSTables (check multiple, return
\* latest)": with nothing in flight and the key in no memtable, the SSTables
\* give the last version logged.
SSTablesReturnLatest ==
  \A k \in Keys : Quiet(k) /\ MemGet(k) = None => SSTableGet(k) = Recovered[k]

\* docs/storage-node/design.md:390, a write is to "Update cache if key exists",
\* and :440, a delete to "Update cache with tombstone (or invalidate entry)":
\* once no request on the key is in flight, the cache holds its last version or
\* nothing.
CacheCurrent ==
  \A k \in Keys :
    (\A c \in Clients : req[c].key # k) /\ cache[k] # None =>
      /\ Recovered[k] # None
      /\ ~Recovered[k].del /\ cache[k] = Recovered[k].op

\* docs/storage-node/design.md:424, compaction is to "Remove duplicates (keep
\* latest version based on vector clock)": a key found in the tables of the
\* level is still found by a read after a compaction.
CompactionKeepsKeys ==
  [][\A k \in Keys :
       InLevels(k) /\ crashes' = crashes => (MemGet(k) # None \/ InLevels(k))']_vars
==============================================================================
