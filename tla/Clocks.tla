------------------------------- MODULE Clocks -------------------------------
(***************************************************************************)
(* Vector clocks and quorums, as the code computes them: the operations of *)
(* the coordinator (algorithm/vectorclock_ops.go, algorithm/quorum.go,     *)
(* model/vectorclock.go), and the comparisons the storage node and its     *)
(* compaction write for themselves.                                        *)
(*                                                                         *)
(* A clock is the map the code builds from the entries: a function from    *)
(* coordinator ids to logical timestamps, defined where there is an entry. *)
(***************************************************************************)
EXTENDS Integers, FiniteSets

EmptyClock == [n \in {} |-> 0]

\* map[nodeID]: zero where there is no entry.
At(vc, n) == IF n \in DOMAIN vc THEN vc[n] ELSE 0

\* VectorClockOps.Compare
Compare(vc1, vc2) ==
  LET allNodes  == DOMAIN vc1 \cup DOMAIN vc2
      allBefore == \A n \in allNodes : At(vc1, n) <= At(vc2, n)
      allAfter  == \A n \in allNodes : At(vc1, n) >= At(vc2, n)
  IN  IF allBefore /\ allAfter THEN "Identical"
      ELSE IF allBefore THEN "Before"
      ELSE IF allAfter THEN "After" ELSE "Concurrent"

\* VectorClock.Equals: as many entries, and the same ones.
Equals(vc, other) ==
  /\ Cardinality(DOMAIN vc) = Cardinality(DOMAIN other)
  /\ \A n \in DOMAIN other : n \in DOMAIN vc /\ vc[n] = other[n]

\* VectorClockOps.Merge of two clocks
Merge(vc1, vc2) ==
  [n \in DOMAIN vc1 \cup DOMAIN vc2 |->
     IF At(vc1, n) >= At(vc2, n) THEN At(vc1, n) ELSE At(vc2, n)]

\* Mutant: the new timestamp is that of the clock that was read plus one, and the
\* timestamps already given out are forgotten.
IncrementFromRead(existing, local, id) ==
  LET ts == At(existing, id) + 1
  IN  [local |-> ts,
       vc |-> [n \in DOMAIN existing \cup {id} |-> IF n = id THEN ts ELSE existing[n]]]

\* VectorClockService.IncrementFrom: the clock of a write that overwrites a
\* version, and the local timestamp after it.
IncrementFrom(existing, local, id) ==
  LET ts == IF At(existing, id) >= local + 1 THEN At(existing, id) + 1 ELSE local + 1
  IN  [local |-> ts,
       vc |-> [n \in DOMAIN existing \cup {id} |-> IF n = id THEN ts ELSE existing[n]]]

\* VectorClockService.Increment: the clock of a write that found no version.
Increment(local, id) == [local |-> local + 1, vc |-> [n \in {id} |-> local + 1]]

\* VectorClockService.Compare of the storage node: 1, -1, or 0.
NodeCompare(a, b) ==
  LET aGreater == \E n \in DOMAIN a : n \notin DOMAIN b \/ a[n] > At(b, n)
      bGreater == \/ \E n \in DOMAIN a \cap DOMAIN b : a[n] < b[n]
                  \/ \E n \in DOMAIN b \ DOMAIN a : b[n] > 0
  IN  IF aGreater /\ ~bGreater THEN 1
      ELSE IF ~aGreater /\ bGreater THEN -1 ELSE 0

\* CompactionService.compareVectorClocks
CompactionCompare(vc1, vc2) ==
  LET vc1Greater == \E n \in DOMAIN vc1 : vc1[n] > At(vc2, n)
      vc2Greater == \/ \E n \in DOMAIN vc1 : vc1[n] < At(vc2, n)
                    \/ \E n \in DOMAIN vc2 \ DOMAIN vc1 : vc2[n] > 0
  IN  IF vc1Greater /\ ~vc2Greater THEN 1
      ELSE IF vc2Greater /\ ~vc1Greater THEN -1 ELSE 0

------------------------------------------------------------------------------
\* Quorums.

\* Mutant: half of the replicas, not more than half.
CalculateHalf(total) == total \div 2

\* QuorumCalculator.CalculateQuorum
CalculateQuorum(total) == (total \div 2) + 1

\* QuorumCalculator.GetRequiredReplicas
GetRequiredReplicas(consistency, total, active) ==
  CASE consistency = "one" -> 1
    [] consistency = "all" -> total
    [] OTHER -> CalculateQuorum(IF active > 0 THEN active ELSE total)

\* ConsistencyService.IsQuorumReached: every replica counts as active.
IsQuorumReached(successes, total, consistency) ==
  successes >= GetRequiredReplicas(consistency, total, total)

\* ConsistencyService.GetRequiredReplicasForWriteSet, of the nodes in state
\* NORMAL among the replicas written to.
RequiredForWriteSet(consistency, authoritative) ==
  CASE consistency = "one" -> 1
    [] consistency = "all" -> authoritative
    [] OTHER -> IF authoritative > 0 THEN CalculateQuorum(authoritative) ELSE 1
==============================================================================
