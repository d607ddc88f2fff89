---------------------------- MODULE Coordinator ----------------------------
(***************************************************************************)
(* Quorum writes and reads of one key (CoordinatorServiceV2), with the     *)
(* services a request calls: idempotency, vector clocks, consistency,      *)
(* conflict detection and the storing of hints.  Requests of several       *)
(* coordinators interleave, their messages to the replicas are lost,       *)
(* delayed or refused, and coordinators restart.                           *)
(*                                                                         *)
(* A version is the number of the write that made it; ops[o] records the   *)
(* clock the write was given, and what was true when the request began.    *)
(* The replica set is fixed (Topology.tla is about how it changes), and a  *)
(* replica keeps whatever write reaches it last, as StorageService.Write   *)
(* and the memtable do.                                                    *)
(***************************************************************************)
EXTENDS Clocks, Sequences, Functions

CONSTANTS
  Coords,      \* coordinator nodes
  Procs,       \* request goroutines
  Home,        \* the coordinator a request goroutine belongs to
  Nodes,       \* the replicas of the key, of which GetReplicas returns at least one
  Normal,      \* those in state NORMAL
  Levels,      \* consistency levels requests ask for
  IKeys,       \* idempotency keys clients send
  Faults,      \* what may happen to a call: "lost", "late", "refused", "unread"
  MaxOps,      \* bound: writes
  MaxReads,    \* bound: reads
  MaxRestarts  \* bound: coordinator restarts

CoordinatorAssumption ==
  /\ Home \in [Procs -> Coords]
  /\ IsFiniteSet(Nodes) /\ Nodes # {} /\ Normal \subseteq Nodes
  /\ Levels \subseteq {"one", "quorum", "all"}
  /\ Faults \subseteq {"lost", "late", "refused", "unread"}
  /\ {MaxOps, MaxReads, MaxRestarts} \subseteq Nat

VARIABLES
  ops,      \* the writes, in the order they took their clocks
  store,    \* the version each replica holds, 0 for none
  net,      \* writes on their way to a replica: <<node, op>>
  applied,  \* writes that reached a replica: <<node, op>>
  proc,     \* the request goroutines
  local,    \* VectorClockService.localTimestamp of each coordinator
  idem,     \* idempotency keys with a response in Redis
  acked,    \* writes answered with success
  hints,    \* hints in memory: <<coordinator, node, op>>
  reads,    \* reads begun
  restarts  \* coordinator restarts so far

vars == <<ops, store, net, applied, proc, local, idem, acked, hints, reads, restarts>>

\* resp: what each replica answered; val: the version a read found there.
Idle == [at |-> "idle", level |-> "quorum", ikey |-> "", op |-> 0, base |-> 0,
         resp |-> [n \in Nodes |-> "none"], val |-> [n \in Nodes |-> 0],
         must |-> {}, dup |-> FALSE]
Pending == [n \in Nodes |-> "pending"]

VC(o) == IF o = 0 THEN EmptyClock ELSE ops[o].vc

Init ==
  /\ ops = <<>> /\ net = {} /\ applied = {} /\ idem = {} /\ acked = {} /\ hints = {}
  /\ store = [n \in Nodes |-> 0]
  /\ proc = [p \in Procs |-> Idle]
  /\ local = [c \in Coords |-> 0]
  /\ reads = 0 /\ restarts = 0

AnsweredAll(p) == \A n \in Nodes : proc[p].resp[n] # "pending"
Successes(p) == {n \in Nodes : proc[p].resp[n] = "ok"}

------------------------------------------------------------------------------
\* Writes.

\* What RedisIdempotencyStore.Get returns for a key that is there: Set marshals
\* the response to JSON and Get unmarshals it into an interface{}, which gives
\* a map and never the *IdempotencyResponse that was stored.
RedisGetType == "map[string]interface {}"

\* IdempotencyService.Get: the type assertion fails with an error.
IdempotencyGet(ikey) ==
  IF ikey \notin idem THEN "nil"
  ELSE IF RedisGetType = "*IdempotencyResponse" THEN "cached" ELSE "error"

\* WriteKeyValue up to the replicas: an error of the idempotency check is only
\* logged; a request without a key is given one that nothing else uses.
BeginWrite(p, level, ikey) ==
  /\ proc[p].at = "idle"
  /\ Len(ops) + Cardinality({q \in Procs : proc[q].at \in {"existing", "clock"}}) < MaxOps
  /\ IF ikey # "" /\ IdempotencyGet(ikey) = "cached"
     THEN UNCHANGED proc
     ELSE proc' = [proc EXCEPT ![p] = [Idle EXCEPT !.at = "existing", !.level = level,
                     !.ikey = ikey, !.must = acked, !.dup = ikey \in idem]]
  /\ UNCHANGED <<ops, store, net, applied, local, idem, acked, hints, reads, restarts>>

\* The clock of a write that read version proc[p].base.
TakeClock(p) ==
  LET c == Home[p]
  IN  IF proc[p].base = 0 THEN Increment(local[c], c)
      ELSE IncrementFrom(VC(proc[p].base), local[c], c)

\* readExistingValue: the first replica that answers with a value wins; none
\* does if no replica holds one, or the reads fail.
ReadExistingValue(p) ==
  /\ proc[p].at = "existing"
  /\ \E v \in 0..Len(ops) :
       /\ \/ v > 0 /\ \E n \in Nodes : store[n] = v
          \/ v = 0 /\ (\A n \in Nodes : store[n] = 0)
          \/ v = 0 /\ "unread" \in Faults
       /\ proc' = [proc EXCEPT ![p].at = "clock", ![p].base = v]
  /\ UNCHANGED <<ops, store, net, applied, local, idem, acked, hints, reads, restarts>>

\* The clock is taken, and every replica is written to in a goroutine of its own.
StartWrites(p) ==
  /\ proc[p].at = "clock"
  /\ LET o == Len(ops) + 1
     IN /\ local' = [local EXCEPT ![Home[p]] = TakeClock(p).local]
        /\ ops' = Append(ops, [vc |-> TakeClock(p).vc, base |-> proc[p].base,
                               coord |-> Home[p], level |-> proc[p].level,
                               after |-> proc[p].must, dup |-> proc[p].dup])
        /\ net' = net \cup (Nodes \X {o})
        /\ proc' = [proc EXCEPT ![p].at = "writing", ![p].op = o, ![p].resp = Pending]
  /\ UNCHANGED <<store, applied, idem, acked, hints, reads, restarts>>

Waiting(o, n) == {p \in Procs : /\ proc[p].at = "writing" /\ proc[p].op = o
                                /\ proc[p].resp[n] = "pending"}
Answer(o, n, r) ==
  [p \in Procs |-> IF p \in Waiting(o, n) THEN [proc[p] EXCEPT !.resp[n] = r] ELSE proc[p]]

\* The storage node applies the write and answers, perhaps too late.
Deliver(n, o) ==
  /\ <<n, o>> \in net
  /\ net' = net \ {<<n, o>>}
  /\ store' = [store EXCEPT ![n] = o]
  /\ applied' = applied \cup {<<n, o>>}
  /\ proc' = Answer(o, n, "ok")
  /\ UNCHANGED <<ops, local, idem, acked, hints, reads, restarts>>

\* The storage node refuses the write: its handler answers Success=false, which
\* is no error of the call, so that no hint is stored.
Refuse(n, o) ==
  /\ "refused" \in Faults
  /\ <<n, o>> \in net
  /\ net' = net \ {<<n, o>>}
  /\ proc' = Answer(o, n, "refused")
  /\ UNCHANGED <<ops, store, applied, local, idem, acked, hints, reads, restarts>>

\* HintedHandoffService.StoreHint
StoreHint(c, n, o) == {<<c, n, o>>}

\* The call fails or times out: a hint is stored.  The message is lost, or it is
\* still under way.
FailWrite(p, n, fault) ==
  /\ fault \in Faults \cap {"lost", "late"}
  /\ proc[p].at = "writing" /\ proc[p].resp[n] = "pending"
  /\ proc' = [proc EXCEPT ![p].resp[n] = "error"]
  /\ hints' = hints \cup StoreHint(Home[p], n, proc[p].op)
  /\ net' = IF fault = "lost" THEN net \ {<<n, proc[p].op>>} ELSE net
  /\ UNCHANGED <<ops, store, applied, local, idem, acked, reads, restarts>>

\* All replicas have answered: the quorum is counted over the replicas written
\* to, and only a write that reached it stores its response for its key.
FinishWrite(p) ==
  /\ proc[p].at = "writing" /\ AnsweredAll(p)
  /\ IF IsQuorumReached(Cardinality(Successes(p)), Cardinality(Nodes), proc[p].level)
     THEN /\ acked' = acked \cup {proc[p].op}
          /\ idem' = idem \cup (IF proc[p].ikey = "" THEN {} ELSE {proc[p].ikey})
     ELSE UNCHANGED <<acked, idem>>
  /\ proc' = [proc EXCEPT ![p] = Idle]
  /\ UNCHANGED <<ops, store, net, applied, local, hints, reads, restarts>>

------------------------------------------------------------------------------
\* Reads.

\* ReadKeyValue: every replica is read in a goroutine of its own.
BeginRead(p, level) ==
  /\ proc[p].at = "idle" /\ reads < MaxReads
  /\ reads' = reads + 1
  /\ proc' = [proc EXCEPT ![p] = [Idle EXCEPT !.at = "reading", !.level = level,
                                              !.resp = Pending, !.must = acked]]
  /\ UNCHANGED <<ops, store, net, applied, local, idem, acked, hints, restarts>>

\* A replica answers with the version it holds; "ok" is Success and Found.
ReadReplica(p, n) ==
  /\ proc[p].at = "reading" /\ proc[p].resp[n] = "pending"
  /\ proc' = [proc EXCEPT ![p].resp[n] = IF store[n] = 0 THEN "notfound" ELSE "ok",
                          ![p].val[n] = store[n]]
  /\ UNCHANGED <<ops, store, net, applied, local, idem, acked, hints, reads, restarts>>

FailRead(p, n) ==
  /\ "unread" \in Faults
  /\ proc[p].at = "reading" /\ proc[p].resp[n] = "pending"
  /\ proc' = [proc EXCEPT ![p].resp[n] = "error"]
  /\ UNCHANGED <<ops, store, net, applied, local, idem, acked, hints, reads, restarts>>

\* Mutant: the older of two comparable versions is kept.
KeepOlder(acc, v) ==
  IF acc.latest = 0 THEN [acc EXCEPT !.latest = v]
  ELSE IF Compare(VC(v), VC(acc.latest)) = "Before" THEN [acc EXCEPT !.latest = v]
  ELSE acc

\* One response of DetectConflicts.  Neither service fills in the timestamp the
\* tie of two concurrent versions is meant to be broken by: the first is kept.
KeepLatest(acc, v) ==
  IF acc.latest = 0 THEN [acc EXCEPT !.latest = v]
  ELSE IF Compare(VC(v), VC(acc.latest)) = "After" THEN [acc EXCEPT !.latest = v]
  ELSE IF Compare(VC(v), VC(acc.latest)) = "Concurrent" THEN [acc EXCEPT !.conflict = TRUE]
  ELSE acc

\* The orders in which the responses of the successes may be collected.
Orders(p) == Bijection(1..Cardinality(Successes(p)), Successes(p))

\* DetectConflicts over the responses in the order they were collected.
DetectConflicts(p, order) ==
  LET keep[i \in 0..Cardinality(Successes(p))] ==
        IF i = 0 THEN [latest |-> 0, conflict |-> FALSE]
        ELSE KeepLatest(keep[i - 1], proc[p].val[order[i]])
  IN  keep[Cardinality(Successes(p))]

\* performReadRepair: the node it writes to has an id and no address, so that the
\* write fails and a hint is stored for every replica that differs.
ReadRepair(p, latest) ==
  UNION {StoreHint(Home[p], n, latest) :
           n \in {m \in Nodes : ~Equals(VC(proc[p].val[m]), VC(latest))}}

\* All replicas have answered: the latest version is returned, and the replicas
\* are repaired only if two versions were concurrent.
FinishRead(p) ==
  /\ proc[p].at = "reading" /\ AnsweredAll(p)
  /\ IF IsQuorumReached(Cardinality(Successes(p)), Cardinality(Nodes), proc[p].level)
     THEN \E order \in Orders(p) :
            LET d == DetectConflicts(p, order)
            IN /\ proc' = [proc EXCEPT ![p].at = "read", ![p].op = d.latest]
               /\ hints' = hints \cup (IF d.conflict THEN ReadRepair(p, d.latest) ELSE {})
     ELSE /\ proc' = [proc EXCEPT ![p] = Idle]
          /\ UNCHANGED hints
  /\ UNCHANGED <<ops, store, net, applied, local, idem, acked, reads, restarts>>

\* The answer of a read is handed to the client.
ReturnRead(p) ==
  /\ proc[p].at = "read"
  /\ proc' = [proc EXCEPT ![p] = Idle]
  /\ UNCHANGED <<ops, store, net, applied, local, idem, acked, hints, reads, restarts>>

------------------------------------------------------------------------------
\* A coordinator restarts: its requests, its hints and its local timestamp,
\* which NewVectorClockService starts at zero, are gone.
Restart(c) ==
  /\ restarts < MaxRestarts
  /\ restarts' = restarts + 1
  /\ local' = [local EXCEPT ![c] = 0]
  /\ proc' = [p \in Procs |-> IF Home[p] = c THEN Idle ELSE proc[p]]
  /\ hints' = {h \in hints : h[1] # c}
  /\ UNCHANGED <<ops, store, net, applied, idem, acked, reads>>

Done == /\ \A p \in Procs : proc[p].at = "idle"
        /\ net = {} /\ Len(ops) = MaxOps /\ reads = MaxReads
        /\ UNCHANGED vars

Next ==
  \/ \E p \in Procs : \/ ReadExistingValue(p) \/ StartWrites(p) \/ FinishWrite(p)
                      \/ FinishRead(p) \/ ReturnRead(p)
  \/ \E p \in Procs, l \in Levels, k \in IKeys \cup {""} : BeginWrite(p, l, k)
  \/ \E p \in Procs, l \in Levels : BeginRead(p, l)
  \/ \E n \in Nodes, o \in 1..Len(ops) : Deliver(n, o) \/ Refuse(n, o)
  \/ \E p \in Procs, n \in Nodes : ReadReplica(p, n) \/ FailRead(p, n)
  \/ \E p \in Procs, n \in Nodes, f \in Faults : FailWrite(p, n, f)
  \/ \E c \in Coords : Restart(c)
  \/ Done

Spec == Init /\ [][Next]_vars

------------------------------------------------------------------------------
\* Properties.

\* The requests, the messages and the replicas are what their types say, and a
\* replica only holds a version that was delivered to it.
TypeOK ==
  /\ \A o \in DOMAIN ops : ops[o].base \in 0..(o - 1) /\ ops[o].coord \in Coords
  /\ net \subseteq Nodes \X DOMAIN ops
  /\ applied \subseteq (Nodes \X DOMAIN ops) \ net
  /\ \A n \in Nodes : store[n] = 0 \/ <<n, store[n]>> \in applied
  /\ \A p \in Procs : proc[p].at \in {"idle", "existing", "clock", "writing", "reading", "read"}
  /\ acked \subseteq DOMAIN ops /\ idem \subseteq IKeys
  /\ hints \subseteq Coords \X Nodes \X DOMAIN ops

\* A write is answered with success only once the replicas its consistency level
\* asks for have applied it, whatever was lost, late or refused.
AckedOnQuorum ==
  \A o \in acked :
    LET got == Cardinality({n \in Nodes : <<n, o>> \in applied})
    IN  CASE ops[o].level = "one" -> got >= 1
          [] ops[o].level = "all" -> got = Cardinality(Nodes)
          [] OTHER -> 2 * got > Cardinality(Nodes)

\* The read-modify-write keeps causality: the clock of a write is after that of
\* the version it read, in every interleaving and across restarts.
CausalClocks ==
  \A o \in DOMAIN ops :
    ops[o].base # 0 => Compare(ops[o].vc, ops[ops[o].base].vc) = "After"

\* Two writes never carry the same clock, so that a replica that differs from
\* another is seen to differ.
UniqueClocks ==
  \A o, u \in DOMAIN ops : o # u => ~Equals(ops[o].vc, ops[u].vc)

\* What a read returns is a version some replica answered with, and none of the
\* versions it was answered with is after it, in whatever order they came.
AnswerIsMaximal ==
  \A p \in Procs : proc[p].at = "read" =>
    /\ \E n \in Successes(p) : proc[p].val[n] = proc[p].op
    /\ \A n \in Successes(p) : Compare(VC(proc[p].val[n]), VC(proc[p].op)) # "After"

\* A read that begins after a write was answered, both at quorum or both at all,
\* returns that write or a later one.
QuorumReadFresh ==
  \A p \in Procs : proc[p].at = "read" =>
    \A o \in proc[p].must : Compare(VC(proc[p].op), VC(o)) \in {"After", "Identical"}

\* A write that begins after another was answered with success has a later clock.
WritesFollowAcked ==
  \A o \in DOMAIN ops : \A a \in ops[o].after : Compare(ops[o].vc, ops[a].vc) = "After"

\* When a write has been answered, each replica has it, will have it, or there is
\* a hint to send it again.
HintForEveryMiss ==
  \A o \in acked : \A n \in Nodes :
    <<n, o>> \in applied \cup net \/ <<ops[o].coord, n, o>> \in hints

------------------------------------------------------------------------------
\* What the documentation or a comment says, and this code does not do: TLC finds
\* a counterexample to each of these.

\* A read that finds a replica with an older version than the one it returns, or
\* with none, leaves something that brings the replica up to date.
StaleReplicaRepaired ==
  \A p \in Procs : proc[p].at = "read" =>
    \A n \in Nodes :
      \/ Equals(VC(proc[p].val[n]), VC(proc[p].op))
      \/ <<n, proc[p].op>> \in net \cup applied
      \/ \E c \in Coords : <<c, n, proc[p].op>> \in hints

\* A request that repeats an idempotency key whose response is stored does not
\* write again.
RetryWritesOnce == \A o \in DOMAIN ops : ~ops[o].dup

\* A write answered with success is on as many of the replicas in state NORMAL as
\* GetRequiredReplicasForWriteSet, which the write calls, says are required.
QuorumOfAuthoritative ==
  \A o \in acked : Cardinality({n \in Normal : <<n, o>> \in applied})
                    >= RequiredForWriteSet(ops[o].level, Cardinality(Normal))
==============================================================================
