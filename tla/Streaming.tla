----------------------------- MODULE Streaming ------------------------------
(***************************************************************************)
(* StreamingManager of a storage node and the handlers that start, stop    *)
(* and acknowledge streams to other nodes, while clients write.  A stream  *)
(* runs in a goroutine of its own, on the context it was started with,     *)
(* also after the context was removed and another took its place.          *)
(*                                                                         *)
(* A key is its hash.  Scanning, sending and checksums are placeholders in *)
(* the code (they find nothing, send nothing and agree); they are modelled *)
(* as what they are.                                                       *)
(***************************************************************************)
EXTENDS Integers, Sequences, FiniteSets

CONSTANTS
  Targets,      \* nodes that are streamed to
  Top,          \* the largest hash
  Ranges,       \* the key ranges of a request, sets of [start, end]
  MaxStreams,   \* bound: streams started
  MaxWrites     \* bound: keys written

StreamingAssumption ==
  /\ Top \in Nat /\ MaxStreams \in Nat /\ MaxWrites \in Nat
  /\ \A rs \in Ranges : rs # {} /\ \A r \in rs : r.start \in 0..Top /\ r.end \in 0..Top

VARIABLES
  active,   \* activeStreams: the context of each target, 0 for none
  ctx,      \* the contexts, in the order they were made
  run,      \* where the goroutine of each context is
  stored,   \* the keys in local storage
  fresh,    \* keys that are stored and not yet offered to the streams
  live,     \* live writes on their way, <<context, key>>
  acks,     \* targets whose completion is being acknowledged
  got,      \* what each target was sent
  halted    \* history: a stream was stopped

vars == <<active, ctx, run, stored, fresh, live, acks, got, halted>>

Keys == 0..Top

------------------------------------------------------------------------------
\* Ranges, and what the copying of a range is made of.

\* keyInRanges.
KeyInRanges(k, rs) ==
  \E r \in rs : \/ k >= r.start /\ k < r.end
                \/ r.start > r.end /\ (k >= r.start \/ k < r.end)

\* The test of both ScanKeysInRange: a range that ends where it starts is all keys.
ScanInRange(k, r) ==
  IF r.end > r.start THEN k >= r.start /\ k < r.end ELSE k >= r.start \/ k < r.end

\* scanKeysInRange of the streaming manager: nothing yet.
ScanKeys(r) == {}

\* sendToTargetNode logs the keys and reports success.
SendToTargetNode(t, ks) == got

\* copyBatch sends the keys it can read.
CopyBatch(t, ks) == SendToTargetNode(t, ks \cap stored)

\* A checksum is made of the bounds of the range, on both sides.
ComputeRangeChecksum(r) == <<r.start, r.end>>

GetRemoteChecksum(t, r) == ComputeRangeChecksum(r)

\* reSyncRange copies what the scan finds in the ranges that differ.
ReSync(t, rs) == CopyBatch(t, UNION {ScanKeys(r) : r \in rs})

------------------------------------------------------------------------------
Init ==
  /\ active = [t \in Targets |-> 0]
  /\ ctx = <<>> /\ run = <<>>
  /\ stored = {} /\ fresh = {} /\ live = {} /\ acks = {}
  /\ got = [t \in Targets |-> {}] /\ halted = FALSE

\* StartStreaming: a target that has a context is refused, whatever its state.
StartStreaming(t, rs) ==
  /\ active[t] = 0 /\ Len(ctx) < MaxStreams
  /\ ctx' = Append(ctx, [target |-> t, ranges |-> rs, state |-> "copying", streamed |-> 0,
                         had |-> {k \in stored : KeyInRanges(k, rs)}])
  /\ run' = Append(run, "copy")
  /\ active' = [active EXCEPT ![t] = Len(ctx) + 1]
  /\ UNCHANGED <<stored, fresh, live, acks, got, halted>>

\* Mutant: the context is looked up again by its target.
SetStateOfTarget(i, state) ==
  ctx' = IF active[ctx[i].target] = 0 THEN ctx ELSE [ctx EXCEPT ![active[ctx[i].target]].state = state]

\* SetState, on the context the goroutine was started with.
SetState(i, state) == ctx' = [ctx EXCEPT ![i].state = state]

\* ExecuteStreaming: the bulk copy of what the scan finds,
BulkCopy(i) ==
  /\ run[i] = "copy"
  /\ SetState(i, "copying")
  /\ got' = CopyBatch(ctx[i].target, UNION {ScanKeys(r) : r \in ctx[i].ranges})
  /\ run' = [run EXCEPT ![i] = "stream"]
  /\ UNCHANGED <<active, stored, fresh, live, acks, halted>>

\* live streaming,
LiveStreaming(i) ==
  /\ run[i] = "stream"
  /\ SetState(i, "streaming")
  /\ run' = [run EXCEPT ![i] = "sync"]
  /\ UNCHANGED <<active, stored, fresh, live, acks, got, halted>>

Syncing(i) ==
  /\ run[i] = "sync"
  /\ SetState(i, "syncing")
  /\ run' = [run EXCEPT ![i] = "verify"]
  /\ UNCHANGED <<active, stored, fresh, live, acks, got, halted>>

\* and the verification, which copies again the ranges whose checksums differ.
Verify(i) ==
  /\ run[i] = "verify"
  /\ got' = ReSync(ctx[i].target, {r \in ctx[i].ranges :
                     ComputeRangeChecksum(r) # GetRemoteChecksum(ctx[i].target, r)})
  /\ SetState(i, "completed")
  /\ run' = [run EXCEPT ![i] = "end"]
  /\ UNCHANGED <<active, stored, fresh, live, acks, halted>>

\* StopStreaming removes the context; its goroutine goes on.
StopStreaming(t) ==
  /\ active[t] # 0
  /\ active' = [active EXCEPT ![t] = 0]
  /\ halted' = TRUE
  /\ UNCHANGED <<ctx, run, stored, fresh, live, acks, got>>

\* NotifyStreamingComplete finds that the stream is completed,
NotifyStreamingComplete(t) ==
  /\ t \notin acks /\ active[t] # 0 /\ ctx[active[t]].state = "completed"
  /\ acks' = acks \cup {t}
  /\ UNCHANGED <<active, ctx, run, stored, fresh, live, got, halted>>

\* and removes the stream that the target then has.
RemoveAcknowledged(t) ==
  /\ t \in acks
  /\ acks' = acks \ {t}
  /\ active' = [active EXCEPT ![t] = 0]
  /\ UNCHANGED <<ctx, run, stored, fresh, live, got, halted>>

\* StorageService.Write stores a key (each once),
Write(k) ==
  /\ k \notin stored
  /\ Cardinality(stored) < MaxWrites
  /\ stored' = stored \cup {k} /\ fresh' = fresh \cup {k}
  /\ UNCHANGED <<active, ctx, run, live, acks, got, halted>>

\* and InterceptWrite hands it to the streams in the live phase.
InterceptWrite(k) ==
  /\ k \in fresh
  /\ fresh' = fresh \ {k}
  /\ live' = live \cup {<<active[t], k>> : t \in {t \in Targets :
                          /\ active[t] # 0 /\ ctx[active[t]].state = "streaming"
                          /\ KeyInRanges(k, ctx[active[t]].ranges)}}
  /\ UNCHANGED <<active, ctx, run, stored, acks, got, halted>>

\* The goroutine of a live write.
SendLive(w) ==
  /\ w \in live
  /\ live' = live \ {w}
  /\ got' = SendToTargetNode(ctx[w[1]].target, {w[2]})
  /\ ctx' = [ctx EXCEPT ![w[1]].streamed = @ + 1]
  /\ UNCHANGED <<active, run, stored, fresh, acks, halted>>

Execute(i) == BulkCopy(i) \/ LiveStreaming(i) \/ Syncing(i) \/ Verify(i)

Serve ==
  \/ \E t \in Targets, rs \in Ranges : StartStreaming(t, rs)
  \/ \E i \in DOMAIN run : Execute(i)
  \/ \E k \in Keys : Write(k)
  \/ \E k \in fresh : InterceptWrite(k)
  \/ \E w \in live : SendLive(w)
  \/ \E t \in Targets : NotifyStreamingComplete(t) \/ RemoveAcknowledged(t)

Next == Serve \/ \E t \in Targets : StopStreaming(t)

Spec == Init /\ [][Next]_vars /\ \A i \in 1..MaxStreams : WF_vars(i \in DOMAIN run /\ Execute(i))

------------------------------------------------------------------------------
\* Properties.

\* The state that GetStreamStatus reports as completed is that of a stream whose own
\* goroutine has come to its end, also when an earlier stream to the same target
\* was stopped and still runs.
CompletedIsOwn ==
  \A t \in Targets : active[t] # 0 /\ ctx[active[t]].state = "completed" => run[active[t]] = "end"

\* Every stream that is started comes to an end, also when it is stopped.
StreamsEnd == \A i \in 1..MaxStreams : (i \in DOMAIN run) ~> (i \in DOMAIN run /\ run[i] = "end")

\* As long as no stream was stopped, two goroutines never stream to the same target.
OneRunPerTarget ==
  ~halted => \A i, j \in DOMAIN run : i # j /\ ctx[i].target = ctx[j].target =>
               run[i] = "end" \/ run[j] = "end"

\* The tests of the live writes and of the scans agree on the ranges of every
\* stream, but for a range that ends where it starts.
RangeTestsAgree ==
  \A i \in DOMAIN ctx : \A r \in ctx[i].ranges, k \in Keys :
    r.start # r.end => (KeyInRanges(k, {r}) <=> ScanInRange(k, r))

------------------------------------------------------------------------------
\* What the documentation or a comment says, and this code does not do: TLC finds
\* a counterexample to each of these.

\* A stream that is completed has sent the keys that were there when it started.
CompletedHasData == \A i \in DOMAIN ctx : ctx[i].state = "completed" => ctx[i].had \subseteq got[ctx[i].target]

\* A key that is written while a stream of its range is under way is streamed.
WritesAreStreamed ==
  [][ \A t \in Targets, k \in fresh \ fresh' :
        active[t] # 0 /\ ctx[active[t]].state # "completed" /\ KeyInRanges(k, ctx[active[t]].ranges)
          => <<active[t], k>> \in live' ]_vars

\* An acknowledgement removes a stream that is completed: the one it found, or none
\* when that was stopped meanwhile.
AcknowledgesCompleted ==
  [][ \A t \in acks \ acks' : active[t] # 0 => ctx[active[t]].state = "completed" ]_vars
==============================================================================
