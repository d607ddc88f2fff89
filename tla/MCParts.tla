------------------------------- MODULE MCParts -------------------------------
(***************************************************************************)
(* The instances of the components that share no state with one another,   *)
(* side by side: a behaviour is a behaviour of one of them, named by part, *)
(* and the others stay as they start. Components that interact are         *)
(* composed in the modules themselves.                                     *)
(***************************************************************************)
EXTENDS StorageParts, ServiceParts, ClusterParts, CoordinatorParts, TLC

CONSTANTS
  Parts,        \* the instances of this run
  Live,         \* the smaller bounds of the run that checks liveness
  n1, n2, n3,   \* interchangeable: replicas, nodes of a ring, tasks
  NoNode

VARIABLES
  \* Cache
  lru, lruSize, weight, put, lruNow,
  \* SkipList
  forward, value, listLevel, listSize,
  \* SSTableFile
  data, offset, index, bits, bloom, hash, fileStatus, damaged,
  \* CompactionMerge
  input, left, heap, best, out, bad, done,
  \* HashRing
  positions, hashRing, db, todo, busy, calc, steps,
  \* Topology, for the instances other than Topo
  member, move, rings, flow, order, flowed,
  \* GatewayHealth
  coordUp, changes, gatewayReady, healthy, check, probe

Bound(liveness, safety) == IF Live THEN liveness ELSE safety

Three == {n1, n2, n3}
Symmetry == Permutations(Three)

-----------------------------------------------------------------------------
\* Storage node: the cache, the log, the memtable's list and the tables.

LRU == INSTANCE Cache WITH
  Keys <- {"a", "b", "c"}, Sizes <- 1..3, MaxSize <- 4, Window <- 1,
  MaxCount <- Bound(1, 2), MaxTime <- 1, cache <- lru, size <- lruSize, now <- lruNow

List == INSTANCE SkipList WITH
  Keys <- 1..3, Values <- {"v", "w"}, NoValue <- "none", MaxLevel <- 3,
  level <- listLevel, size <- listSize

\* Tables that are read as they were written, and tables whose file is damaged.
Table == INSTANCE SSTableFile WITH
  Keys <- {"k1", "k2"}, Lengths <- 1..2, Checksums <- {1, 2}, Hashes <- {7, 31},
  HashWidth <- 5, BloomSizes <- {1, 8, 9}, HashCount <- 3, MaxDamage <- 0,
  status <- fileStatus
Damaged == INSTANCE SSTableFile WITH
  Keys <- {"k1", "k2"}, Lengths <- 1..2, Checksums <- 0..2, Hashes <- {5},
  HashWidth <- 5, BloomSizes <- {9}, HashCount <- 3, MaxDamage <- 2,
  status <- fileStatus

\* The tables of one tenant with two keys, the first of which may be deleted.
Versions == [tenant : {"a"}, key : 1..2, vc : [{"c"} -> 1..2], dead : BOOLEAN]
InputTables ==
  {t \in SUBSET {e \in Versions : e.key = 2 => ~e.dead /\ e.vc["c"] = 1} :
     \A e, f \in t : e.key = f.key => e = f}
Pairs == InputTables \X InputTables
Triples == InputTables \X InputTables \X InputTables

Merge == INSTANCE CompactionMerge WITH Inputs <- Triples, ReadsMayFail <- FALSE
MergeWithErrors == INSTANCE CompactionMerge WITH Inputs <- Pairs, ReadsMayFail <- TRUE

MCLevelSize == <<1, 2>>

-----------------------------------------------------------------------------
\* Storage node: what is streamed.

Range(s, e) == {[start |-> s, end |-> e]}
Entries == [key : {1, 3}, time : 1..2]
Sorted(n) == {s \in [1..n -> Entries] : n < 2 \/ s[1].key < s[2].key}
SomeTables == UNION {Sorted(n) : n \in 0..2}

\* The ranges of the streams that are stopped and started again, and one stream of the
\* tables.
MCRanges == {Range(1, 3), Range(2, 0)}
Scan == INSTANCE KeyScans WITH
  Targets <- {"t1"}, Top <- 3, Ranges <- {Range(s, e) : s, e \in 0..3},
  Tables <- SomeTables \X SomeTables, MaxStreams <- 1, MaxWrites <- 1,
  got <- sent

-----------------------------------------------------------------------------
\* Coordinator.

\* Of the four situations: the goroutines, the consistency levels, what may fail, and
\* the bounds.
ByPart(serial, concurrent, restarting, two) ==
  ("one after another" :> serial) @@ ("concurrent" :> concurrent)
    @@ ("restarting" :> restarting) @@ ("two coordinators" :> two)
MCCallers == ByPart({"p1"}, {"p1", "p2"}, {"p1"}, {"p1", "p2"})
MCLevels == ByPart({"quorum"}, {"one"}, {"one", "quorum", "all"}, {"quorum"})
MCFaults == ByPart({"lost", "unread"}, {"lost", "late"}, {"lost", "refused", "unread"},
                   {"lost", "unread"})
MCWrites == ByPart(3, 2, 2, 2)
MCReads == ByPart(2, 0, 0, 1)
MCRestarts == ByPart(0, 0, 1, 0)

\* The keys of the hints: two of one key and, where all come to an end, two of another.
MCKeyOf == Bound(<<"a", "b", "a">>, <<"a", "a", "b">>)

\* Two goroutines of a coordinator, and one of another.
MCHome == [p \in Procs |-> IF p = "p3" THEN "c2" ELSE "c1"]

\* Every placement of two virtual nodes of three nodes without a collision; which of
\* its two positions a node comes by first makes no difference.
Placements ==
  {f \in [Three -> (0..6) \X (0..6)] :
     /\ Cardinality(UNION {{f[n][1], f[n][2]} : n \in Three}) = 6
     /\ \A n \in Three : f[n][1] < f[n][2]}
OnePlacement == {(n1 :> <<1, 5>>) @@ (n2 :> <<3, 0>>) @@ (n3 :> <<2, 4>>)}

\* Range calculations for every placement, and the refresh of one ring.
RingRanges == INSTANCE HashRing WITH
  Nodes <- Three, Top <- 6, HashFns <- Placements, VNodes <- 2, Joined <- {}, RF <- 2,
  MaxSteps <- 3, hash <- positions, ring <- hashRing
Refreshed == INSTANCE HashRing WITH
  Nodes <- Three, Top <- 5, HashFns <- OnePlacement, VNodes <- 1, Joined <- {n1, n2},
  RF <- 2, MaxSteps <- 2, hash <- positions, ring <- hashRing

\* A node joins, a node leaves, both at once; Topo has every fault.
Joining == INSTANCE Topology WITH
  Nodes <- 1..4, Coords <- {"c1", "c2"}, Initial <- 1..3, Targets <- {4},
  RF <- 2, MinNodes <- 3, Kinds <- {"add"}, Faults <- {}, MaxAttempts <- 2, MaxOps <- 1,
  node <- member, change <- move, ring <- rings, stream <- flow, op <- order,
  streamed <- flowed
Leaving == INSTANCE Topology WITH
  Nodes <- 1..4, Coords <- {"c1", "c2"}, Initial <- 1..4, Targets <- {4},
  RF <- 2, MinNodes <- 3, Kinds <- {"remove", "force"}, Faults <- {"start", "stream", "slow"},
  MaxAttempts <- 2, MaxOps <- 1,
  node <- member, change <- move, ring <- rings, stream <- flow, op <- order,
  streamed <- flowed
JoiningAndLeaving == INSTANCE Topology WITH
  Nodes <- 1..3, Coords <- Bound({"c1"}, {"c1", "c2"}), Initial <- 1..2, Targets <- 2..3,
  RF <- 2, MinNodes <- 2, Kinds <- {"add", "remove"},
  Faults <- Bound({"stream"}, {"stream", "hints"}), MaxAttempts <- 1, MaxOps <- 2,
  node <- member, change <- move, ring <- rings, stream <- flow, op <- order,
  streamed <- flowed

-----------------------------------------------------------------------------
\* API gateway.

Readiness == INSTANCE GatewayHealth WITH
  Probes <- {"p1", "p2"}, MaxChanges <- 3, up <- coordUp, ready <- gatewayReady

-----------------------------------------------------------------------------
\* What the components assume of their constants.
ASSUME PartsAssumption ==
  /\ LRU!CacheAssumption /\ List!SkipListAssumption /\ Table!FileAssumption
  /\ Damaged!FileAssumption /\ Merge!MergeAssumption /\ MergeWithErrors!MergeAssumption
  /\ Scan!StreamingAssumption /\ RingRanges!HashRingAssumption /\ Refreshed!HashRingAssumption
  /\ Joining!TopologyAssumption /\ Leaving!TopologyAssumption
  /\ JoiningAndLeaving!TopologyAssumption /\ Readiness!GatewayHealthAssumption

-----------------------------------------------------------------------------
\* The state of each component, and the parts that use it.
cacheVars == <<lru, lruSize, weight, put, lruNow>>
hitVars == <<entry, puts, toStore, read>>
logVars == <<logFiles, up, current, closed, segmentID, sequence, written, appended,
            recovered, errors, starts, logNow>>
listVars == <<forward, value, listLevel, listSize>>
tableVars == <<data, offset, index, bits, bloom, hash, fileStatus, damaged>>
mergeVars == <<input, left, heap, best, out, bad, done>>
jobVars == <<levels, files, next, flushed, queue, runs, level, levelDue, job, doing,
            output, stopped>>
poolVars == <<taskQueue, poolStopped, submission, poolWorker, finished, stop, once, counters>>
diskVars == <<diskLock, free, now, cache, writer, size, call>>
streamVars == <<active, ctx, run, stored, fresh, live, acks, sent, halted>>
healthVars == <<probeLock, goroutine, status, ready, checks, listening, saw, answers>>
exitVars == <<main, logOpen, log, memTable, flushing, tables, rpc, acked, refused>>
handoffVars == <<list, hinted, expired, retries, replayer, delivered, panicked>>
replayVars == <<rows, writes, old, node, got, at, batch, full, due>>
ringVars == <<positions, hashRing, db, todo, busy, calc, steps>>
topoVars == <<row, change, ring, stream, op, streamed>>
moveVars == <<member, move, rings, flow, order, flowed>>
tenantVars == <<tenantRow, objects, tenantCache, tenantProc, storedBy, reqs>>
gateVars == <<req, tenant>>
readyVars == <<coordUp, changes, gatewayReady, healthy, check, probe>>

vars == <<part, cacheVars, hitVars, logVars, listVars, tableVars, mergeVars, jobVars,
          poolVars, diskVars, streamVars, healthVars, exitVars, coordVars, handoffVars,
          replayVars, ringVars, topoVars, moveVars, tenantVars, gateVars, readyVars>>

\* The parts that are not chosen start in one of their initial states, so that each
\* choice of part has only its own.
Init ==
  /\ part \in Parts
  /\ LRU!Init /\ Hits!Init /\ Segments!Init /\ List!Init
  /\ IF part = "table" THEN Table!Init ELSE Damaged!Init
  /\ IF part = "merge" THEN Merge!Init ELSE MergeWithErrors!Init
  /\ part \in {"merge", "merge errors"} \/ input = <<{}, {}>>
  /\ Jobs!Init /\ Pool!Init
  /\ Disk!Init /\ (part = "disk" \/ cache.free = 0)
  /\ Streams!Init /\ Health!Init /\ Exit!Init /\ CoordInit /\ Handoff!Init /\ Replay!Init
  /\ CASE part = "ranges" -> RingRanges!Init
       [] part = "refreshed" -> Refreshed!Init
       [] OTHER -> /\ positions = [n \in Three |-> <<>>] /\ hashRing = Refreshed!EmptyRing
                   /\ db = {} /\ todo = <<>> /\ busy = "no" /\ calc = Refreshed!NoCalc
                   /\ steps = 0
  /\ CASE part = "joining" -> Joining!Init
       [] part = "leaving" -> Leaving!Init
       [] OTHER -> JoiningAndLeaving!Init
  /\ Topo!Init /\ Tenant!Init /\ Gate!Init
  /\ Readiness!Init /\ (part = "ready" \/ coordUp)

Frame ==
  /\ UNCHANGED part
  /\ IF part = "cache" THEN TRUE ELSE UNCHANGED cacheVars
  /\ IF part = "hits" THEN TRUE ELSE UNCHANGED hitVars
  /\ IF part = "log" THEN TRUE ELSE UNCHANGED logVars
  /\ IF part = "list" THEN TRUE ELSE UNCHANGED listVars
  /\ IF part \in {"table", "damaged"} THEN TRUE ELSE UNCHANGED tableVars
  /\ IF part \in {"merge", "merge errors"} THEN TRUE ELSE UNCHANGED mergeVars
  /\ IF part = "jobs" THEN TRUE ELSE UNCHANGED jobVars
  /\ IF part = "pool" THEN TRUE ELSE UNCHANGED poolVars
  /\ IF part = "disk" THEN TRUE ELSE UNCHANGED diskVars
  /\ IF part \in {"streams", "scan"} THEN TRUE ELSE UNCHANGED streamVars
  /\ IF part = "health" THEN TRUE ELSE UNCHANGED healthVars
  /\ IF part = "exit" THEN TRUE ELSE UNCHANGED exitVars
  /\ IF part \in {"one after another", "concurrent", "restarting", "two coordinators"}
     THEN TRUE ELSE UNCHANGED coordVars
  /\ IF part = "handoff" THEN TRUE ELSE UNCHANGED handoffVars
  /\ IF part = "replay" THEN TRUE ELSE UNCHANGED replayVars
  /\ IF part \in {"ranges", "refreshed"} THEN TRUE ELSE UNCHANGED ringVars
  /\ IF part = "topology" THEN TRUE ELSE UNCHANGED topoVars
  /\ IF part \in {"joining", "leaving", "joining and leaving"} THEN TRUE ELSE UNCHANGED moveVars
  /\ IF part = "tenant" THEN TRUE ELSE UNCHANGED tenantVars
  /\ IF part = "gateway" THEN TRUE ELSE UNCHANGED gateVars
  /\ IF part = "ready" THEN TRUE ELSE UNCHANGED readyVars

\* These end: the bound on what they are asked for is used up, or the process exits.
Ends == {"log", "table", "damaged", "merge", "merge errors", "jobs", "pool", "streams",
         "scan", "health", "exit", "tenant", "gateway"}

Next ==
  \/ part = "cache" /\ LRU!Next /\ Frame
  \/ part = "hits" /\ Hits!Next /\ Frame
  \/ part = "log" /\ Segments!Next /\ Frame
  \/ part = "list" /\ List!Next /\ Frame
  \/ part = "table" /\ Table!Next /\ Frame
  \/ part = "damaged" /\ Damaged!Next /\ Frame
  \/ part = "merge" /\ Merge!Next /\ Frame
  \/ part = "merge errors" /\ MergeWithErrors!Next /\ Frame
  \/ part = "jobs" /\ Jobs!Next /\ Frame
  \/ part = "pool" /\ Pool!Next /\ Frame
  \/ part = "disk" /\ Disk!Next /\ Frame
  \/ part = "streams" /\ Streams!Next /\ Frame
  \/ part = "scan" /\ Scan!Serve /\ Frame
  \/ part = "health" /\ Health!Next /\ Frame
  \/ part = "exit" /\ Exit!Next /\ Frame
  \/ CoordNext /\ Frame
  \/ part = "handoff" /\ Handoff!Next /\ Frame
  \/ part = "replay" /\ Replay!Next /\ Frame
  \/ part = "ranges" /\ RingRanges!CalcNext /\ Frame
  \/ part = "refreshed" /\ Refreshed!Next /\ Frame
  \/ part = "joining" /\ Joining!Next /\ Frame
  \/ part = "leaving" /\ Leaving!Next /\ Frame
  \/ part = "joining and leaving" /\ JoiningAndLeaving!Next /\ Frame
  \/ part = "topology" /\ Topo!Next /\ Frame
  \/ part = "tenant" /\ Tenant!Next /\ Frame
  \/ part = "gateway" /\ Gate!Next /\ Frame
  \/ part = "ready" /\ Readiness!Next /\ Frame
  \/ part \in Ends /\ UNCHANGED vars

Spec == Init /\ [][Next]_vars

\* The fairness that the modules state for their actions, of the part that runs.
FairSpec ==
  /\ Spec
  /\ WF_cacheVars(part = "cache" /\ (LRU!EvictLowestScore \/ LRU!Add))
  /\ WF_jobVars(part = "jobs" /\ Jobs!CheckCompactionNeeded)
  /\ \A w \in {"w1", "w2"} : WF_jobVars(part = "jobs" /\ Jobs!Work(w))
  /\ \A t \in {n1, n2} : /\ WF_poolVars(part = "pool" /\ Pool!SubmitEnqueue(t))
                         /\ WF_poolVars(part = "pool" /\ Pool!SubmitBlocked(t))
                         /\ WF_poolVars(part = "pool" /\ Pool!Count(t))
  /\ WF_poolVars(part = "pool" /\ (Pool!Take("w1") \/ Pool!Leave("w1")))
  /\ WF_poolVars(part = "pool" /\ \E how \in {"ok", "error", "panic"} : Pool!Finish("w1", how))
  /\ WF_poolVars(part = "pool" /\ (\/ Pool!StopGraceful("s1") \/ Pool!StopTimeout("s1")
                                   \/ Pool!StopAgain("s1")))
  /\ \A i \in 1..2 :
       WF_streamVars(part = "streams" /\ i \in DOMAIN run /\ Streams!Execute(i))
  /\ \A c \in {"c1", "c2"} :
       WF_exitVars(part = "exit" /\ (Exit!AppendLog(c) \/ Exit!PutMemTable(c) \/ Exit!Answer(c)))
  /\ WF_exitVars(part = "exit" /\ (\/ Exit!FlushBegins \/ Exit!FlushEnds
                                   \/ Exit!GracefulStop \/ Exit!Close))
  /\ WF_handoffVars(part = "handoff" /\ ~panicked /\ Handoff!Step("w1"))
  /\ WF_replayVars(part = "replay" /\ Replay!Replaying)
  /\ SF_replayVars(part = "replay" /\ Replay!ReplayHint)
  /\ SF_replayVars(part = "replay" /\ Replay!DeleteHint /\ rows' # rows)
  /\ WF_ringVars(part = "refreshed" /\ Refreshed!ReadList)
  /\ WF_ringVars(part = "refreshed" /\ Refreshed!ClearRing)
  /\ WF_ringVars(part = "refreshed" /\ Refreshed!RefillRing)
  /\ WF_moveVars(part = "leaving" /\ Leaving!Step(1))
  /\ \A c \in {"c1", "c2"} : WF_moveVars(part = "leaving" /\ Leaving!Refresh(c))
  /\ \A p \in (1..4) \X (1..4) : WF_moveVars(part = "leaving" /\ Leaving!StreamEnds(p))
  /\ \A i \in 1..2 :
       WF_moveVars(part = "joining and leaving" /\ JoiningAndLeaving!Step(i))
  /\ WF_moveVars(part = "joining and leaving" /\ JoiningAndLeaving!Refresh("c1"))
  /\ \A p \in (1..3) \X (1..3) :
       WF_moveVars(part = "joining and leaving" /\ JoiningAndLeaving!StreamEnds(p))
  /\ \A p \in {"p1", "p3"} : WF_tenantVars(part = "tenant" /\ Tenant!Step(p))
  /\ \A c \in {"c1", "c2"} : WF_tenantVars(part = "tenant" /\ Tenant!Expire(c))
  /\ WF_gateVars(part = "gateway" /\ Gate!Expire("r1"))
  /\ WF_gateVars(part = "gateway" /\ (\/ Gate!CallExpires("r1") \/ Gate!BackoffExpires("r1")
                                      \/ Gate!Retry("r1")))
  /\ WF_readyVars(part = "ready" /\ Readiness!Check)
  /\ WF_readyVars(part = "ready" /\ Readiness!SetReady)
  /\ \A p \in {"p1", "p2"} : /\ WF_readyVars(part = "ready" /\ Readiness!ProbeChecks(p))
                             /\ WF_readyVars(part = "ready" /\ Readiness!ProbeSetsReady(p))

-----------------------------------------------------------------------------
\* What each part promises. Where a promise takes several instances to bring out,
\* its conjuncts are about one each.

\* Each component's state has its type: sets and records of the right shape, a queue
\* no longer than its capacity, hints within their limit, hashes sorted
\* and owned, a row at most once.
TypesOK ==
  /\ part = "pool" => Pool!TypeOK
  /\ part = "restarting" => Restarting!TypeOK
  /\ part = "handoff" => Handoff!TypeOK
  /\ part = "replay" => Replay!TypeOK
  /\ part = "ranges" => RingRanges!TypeOK
  /\ part = "topology" => Topo!TypeOK
  /\ part = "tenant" => Tenant!TypeOK

\* SSTableReader.Get returns every entry of a finished table as SSTableWriter.Write
\* was given it, and the stored filter rejects none of its keys; once cells of the
\* data file have gone bad, it returns that entry or an error.
TablesReadTrue ==
  /\ part = "table" => Table!WrittenIsRead
  /\ part = "damaged" => Damaged!DamageIsNoticed

\* Of several tables the newest version of a key is kept: the merge of a compaction
\* writes it, in whatever order the readers list their keys, unless it is a tombstone
\* or could not be read; ScanKeysInRange finds it in the tables it could open, and
\* every entry in the memtables; and the test of live writes agrees with the scans on
\* what is in a range, also one that wraps around.
NewestIsKept ==
  /\ part = "merge" => Merge!NewestIsWritten
  /\ part = "merge errors" => MergeWithErrors!NewestIsWritten
  /\ part = "scan" => Scan!ScansKeepNewest /\ Scan!RangeTestsAgree

\* GetNodes returns different nodes, the owner of the key first; the ranges that
\* KeyRangeService calculates for a node that joins or leaves are exactly the keys
\* that change their owner, with the right peer; and merging them neither loses a key
\* nor adds one.
RingAndRangesAgree ==
  part = "ranges" =>
    /\ RingRanges!ReplicasAreDistinct /\ RingRanges!RangesAreWhatMoves
    /\ RingRanges!MergeKeepsKeys

\* Writes find their replicas on every coordinator all through the addition of a
\* node; and when a removal and an addition, on two coordinators, are over, no node is
\* left between two states or keeps the ranges of a change.
TopologyServes ==
  /\ part = "joining" => Joining!WritesResolve
  /\ part = "joining and leaving" => JoiningAndLeaving!SettlesClean

\* What Search finds is a map, which each insertion and each deletion of the skip
\* list changes at its own key and nowhere else, whatever levels were drawn before,
\* and an iterator then visits it in order.
IsAMap == [][part = "list" => List!OneKeyChanges]_listVars

-----------------------------------------------------------------------------
\* What comes about under FairSpec.

\* A Put of the cache returns, also when updates in place have made the cache larger
\* than its limit.
PutReturns == LRU!PutReturns

\* Unless the pool is stopped, an accepted task is executed: neither a panic nor a
\* failure of another task takes its worker away.
AcceptedRuns == Pool!AcceptedRuns

\* What is told to stop stops: the workers of compaction and of the pool leave and
\* Stop returns, a stream ends also when it was stopped, and a shutdown of the process
\* comes to its end.
ServicesStop == Jobs!WorkersLeave /\ Pool!StopReturns /\ Streams!StreamsEnd /\ Exit!Exits

\* No hint is kept in memory for ever, and the replay of the stored hints of a node
\* comes to an end once no more are stored.
HintsEnd ==
  /\ Handoff!HintsAreSettled
  /\ <>(part = "replay" => at \in {"replayed", "failed"})

\* The ring in use becomes the list of the metadata store again and again.
RingFollowsList == Refreshed!RingFollowsList

\* A change of topology settles: the requests of a removal and an addition come to an
\* end, a removal that is rolled back has the node in the ring again, and writes find
\* their replicas again after a node was removed.
ChangesSettle ==
  /\ \A i \in 1..2 : (part = "joining and leaving" /\ order[i].pc # "free")
                     ~> (part = "joining and leaving" => order[i].pc \in JoiningAndLeaving!Ended)
  /\ Leaving!RevertedServesAgain
  /\ \A c \in {"c1", "c2"} : []<>(part = "leaving" => Leaving!Resolves(c))

\* Once the requests are over, staleness ends with the TTL: what a coordinator caches
\* of a tenant is the row.
CacheConverges == Tenant!CacheConverges

\* The gateway keeps up with its coordinator: every request is answered, whatever
\* breaks and also when the coordinator hangs; and when the coordinator stays up, or
\* stays down, the readiness comes to say so and then keeps saying so, whatever
\* results of older checks are still to come.
GatewayKeepsUp == Gate!Answered /\ Readiness!ReadyFollows
==============================================================================
