--------------------------- MODULE CoordinatorParts ---------------------------
(***************************************************************************)
(* Coordinators in four situations, side by side: requests that come one   *)
(* after another, concurrent requests, a coordinator that restarts, and    *)
(* two coordinators. A behaviour is one of the situation that part names.  *)
(* The instances are of QuorumProofs, which extends Coordinator, so that   *)
(* its theorems are at hand for each of them.                              *)
(***************************************************************************)
EXTENDS Integers, Sequences, FiniteSets

CONSTANTS
  Replicas,             \* the replicas of the keys
  \* Functions of the part: request goroutines, consistency levels, what may fail, and
  \* the bounds on writes, reads and restarts.
  Callers, LevelsOf, FaultsOf, WritesOf, ReadsOf, RestartsOf,
  IKeys                 \* idempotency keys, for the coordinator that restarts

VARIABLES
  part,
  ops, store, net, applied, proc, local, idem, ackedOps, hints, reads, restarts

coordVars == <<ops, store, net, applied, proc, local, idem, ackedOps, hints, reads, restarts>>

OneAfterAnother == INSTANCE QuorumProofs WITH
  Coords <- {"c1"}, Procs <- {"p1"}, Home <- [p \in {"p1"} |-> "c1"],
  Nodes <- Replicas, Normal <- Replicas, Levels <- LevelsOf["one after another"], IKeys <- {},
  Faults <- FaultsOf["one after another"], MaxOps <- WritesOf["one after another"],
  MaxReads <- ReadsOf["one after another"], MaxRestarts <- 0, acked <- ackedOps
Concurrent == INSTANCE QuorumProofs WITH
  Coords <- {"c1"}, Procs <- Callers["concurrent"], Home <- [p \in Callers["concurrent"] |-> "c1"],
  Nodes <- Replicas, Normal <- Replicas, Levels <- LevelsOf["concurrent"], IKeys <- {},
  Faults <- FaultsOf["concurrent"], MaxOps <- WritesOf["concurrent"],
  MaxReads <- ReadsOf["concurrent"], MaxRestarts <- 0, acked <- ackedOps
Restarting == INSTANCE QuorumProofs WITH
  Coords <- {"c1"}, Procs <- Callers["restarting"], Home <- [p \in Callers["restarting"] |-> "c1"],
  Nodes <- Replicas, Normal <- Replicas, Levels <- LevelsOf["restarting"],
  Faults <- FaultsOf["restarting"], MaxOps <- WritesOf["restarting"],
  MaxReads <- ReadsOf["restarting"], MaxRestarts <- RestartsOf["restarting"], acked <- ackedOps
TwoCoordinators == INSTANCE QuorumProofs WITH
  Coords <- {"c1", "c2"}, Procs <- {"p1", "p2"},
  Home <- [p \in {"p1", "p2"} |-> IF p = "p1" THEN "c1" ELSE "c2"],
  Nodes <- Replicas, Normal <- Replicas, Levels <- LevelsOf["two coordinators"], IKeys <- {},
  Faults <- FaultsOf["two coordinators"], MaxOps <- WritesOf["two coordinators"],
  MaxReads <- ReadsOf["two coordinators"], MaxRestarts <- 0, acked <- ackedOps

\* One after another, requests ask for a quorum or all of the replicas and no call is
\* applied after it was given up; of concurrent writes none is refused.
ASSUME CoordinatorPartsAssumption ==
  /\ OneAfterAnother!CoordinatorAssumption /\ Concurrent!CoordinatorAssumption
  /\ Restarting!CoordinatorAssumption /\ TwoCoordinators!CoordinatorAssumption
  /\ "one" \notin LevelsOf["one after another"] /\ "late" \notin FaultsOf["one after another"]
  /\ "refused" \notin FaultsOf["concurrent"]

CoordInit ==
  CASE part = "one after another" -> OneAfterAnother!Init
    [] part = "concurrent" -> Concurrent!Init
    [] part = "two coordinators" -> TwoCoordinators!Init
    [] OTHER -> Restarting!Init

CoordNext ==
  \/ part = "one after another" /\ OneAfterAnother!Next
  \/ part = "concurrent" /\ Concurrent!Next
  \/ part = "restarting" /\ Restarting!Next
  \/ part = "two coordinators" /\ TwoCoordinators!Next

CoordSpec == CoordInit /\ [][CoordNext /\ UNCHANGED part]_<<part, coordVars>>

\* A read of the coordinator that begins after a write was answered, both at quorum or
\* both at all, returns that write or a later one when requests come one after another;
\* and when two coordinators race, it returns a version that a replica answered with
\* and that no other answer is after, in whatever order they came.
ReadsAnswerNewest ==
  /\ part = "one after another" => OneAfterAnother!QuorumReadFresh
  /\ part = "two coordinators" => TwoCoordinators!AnswerIsMaximal

\* Clocks order writes as they happened: a write that begins after another was
\* answered has a later clock, two concurrent writes never carry the same clock, and a
\* write has a later clock than the version it read, also after a restart.
ClocksFollowWrites ==
  /\ part = "one after another" => OneAfterAnother!WritesFollowAcked
  /\ part = "concurrent" => Concurrent!UniqueClocks
  /\ part = "restarting" => Restarting!CausalClocks

\* WriteKeyValue answers with success only once the replicas its level asks for have
\* applied the write, whatever was lost or refused; and a replica that has not, and
\* will not, has a hint waiting.
WritesAreAccounted ==
  /\ part = "restarting" => Restarting!AckedOnQuorum
  /\ part = "concurrent" => Concurrent!HintForEveryMiss
==============================================================================
