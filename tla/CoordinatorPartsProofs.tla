----------------------- MODULE CoordinatorPartsProofs ------------------------
(***************************************************************************)
(* What the theorems of QuorumProofs say of the four situations of         *)
(* CoordinatorParts: a step of CoordNext is a step of the instance that    *)
(* part names, and part never changes.                                     *)
(***************************************************************************)
EXTENDS CoordinatorParts, TLAPS

\* Requests that come one after another.
LEMMA SerialPart ==
  CoordSpec => [](part = "one after another" =>
                    OneAfterAnother!QuorumReadFresh /\ OneAfterAnother!WritesFollowAcked)
<1>1. part = "one after another" /\ [CoordNext /\ UNCHANGED part]_<<part, coordVars>>
        => (part = "one after another")' /\ [OneAfterAnother!Next]_(OneAfterAnother!vars)
  BY Zenon DEF CoordNext, coordVars, OneAfterAnother!vars
<1>2. ~(part = "one after another") /\ [CoordNext /\ UNCHANGED part]_<<part, coordVars>>
        => (~(part = "one after another"))'
  BY Zenon DEF CoordNext
<1>3. OneAfterAnother!Spec => []OneAfterAnother!QuorumReadFresh
  <2>1. /\ OneAfterAnother!CoordinatorAssumption
        /\ "one" \notin LevelsOf["one after another"] /\ "late" \notin FaultsOf["one after another"]
    BY CoordinatorPartsAssumption, Zenon
  <2> QED
    BY <2>1, OneAfterAnother!SerialReadsAreFresh, Zenon
<1>4. OneAfterAnother!Spec => []OneAfterAnother!WritesFollowAcked
  <2>1. OneAfterAnother!CoordinatorAssumption
    BY CoordinatorPartsAssumption, Zenon
  <2> QED
    BY <2>1, OneAfterAnother!WritesAreOrdered
<1>5. CoordInit /\ part = "one after another" => OneAfterAnother!Init
  BY Zenon DEF CoordInit
<1> QED
  BY <1>1, <1>2, <1>3, <1>4, <1>5, PTL DEF CoordSpec, OneAfterAnother!Spec

\* Concurrent requests of one coordinator.
LEMMA ConcurrentPart ==
  CoordSpec => [](part = "concurrent" => Concurrent!UniqueClocks /\ Concurrent!HintForEveryMiss)
<1>1. part = "concurrent" /\ [CoordNext /\ UNCHANGED part]_<<part, coordVars>>
        => (part = "concurrent")' /\ [Concurrent!Next]_(Concurrent!vars)
  BY DEF CoordNext, coordVars, Concurrent!vars
<1>2. ~(part = "concurrent") /\ [CoordNext /\ UNCHANGED part]_<<part, coordVars>>
        => (~(part = "concurrent"))'
  BY Zenon DEF CoordNext
<1>3. Concurrent!CoordinatorAssumption /\ "refused" \notin FaultsOf["concurrent"]
  BY CoordinatorPartsAssumption, Zenon
<1>4. Concurrent!Spec => []Concurrent!UniqueClocks
  BY <1>3, Concurrent!ClocksAreUnique
<1>5. Concurrent!Spec => []Concurrent!HintForEveryMiss
  BY <1>3, Concurrent!MissesAreHinted
<1>6. CoordInit /\ part = "concurrent" => Concurrent!Init
  BY DEF CoordInit
<1> QED
  BY <1>1, <1>2, <1>4, <1>5, <1>6, PTL DEF CoordSpec, Concurrent!Spec

\* A coordinator that may restart.
LEMMA RestartingPart ==
  CoordSpec => [](part = "restarting" => Restarting!CausalClocks /\ Restarting!AckedOnQuorum)
<1>1. part = "restarting" /\ [CoordNext /\ UNCHANGED part]_<<part, coordVars>>
        => (part = "restarting")' /\ [Restarting!Next]_(Restarting!vars)
  BY DEF CoordNext, coordVars, Restarting!vars
<1>2. ~(part = "restarting") /\ [CoordNext /\ UNCHANGED part]_<<part, coordVars>>
        => (~(part = "restarting"))'
  BY Zenon DEF CoordNext
<1>3. Restarting!CoordinatorAssumption
  BY CoordinatorPartsAssumption, Zenon
<1>4. Restarting!Spec => []Restarting!CausalClocks
  BY <1>3, Restarting!ClocksAreCausal
<1>5. Restarting!Spec => []Restarting!AckedOnQuorum
  BY <1>3, Restarting!AckedMeansQuorum
<1>6. CoordInit /\ part = "restarting" => Restarting!Init
  BY DEF CoordInit
<1> QED
  BY <1>1, <1>2, <1>4, <1>5, <1>6, PTL DEF CoordSpec, Restarting!Spec

\* Two coordinators that race.
LEMMA TwoPart ==
  CoordSpec => [](part = "two coordinators" => TwoCoordinators!AnswerIsMaximal)
<1>1. part = "two coordinators" /\ [CoordNext /\ UNCHANGED part]_<<part, coordVars>>
        => (part = "two coordinators")' /\ [TwoCoordinators!Next]_(TwoCoordinators!vars)
  BY Zenon DEF CoordNext, coordVars, TwoCoordinators!vars
<1>2. ~(part = "two coordinators") /\ [CoordNext /\ UNCHANGED part]_<<part, coordVars>>
        => (~(part = "two coordinators"))'
  BY Zenon DEF CoordNext
<1>3. TwoCoordinators!CoordinatorAssumption
  BY CoordinatorPartsAssumption, Zenon
<1>4. TwoCoordinators!Spec => []TwoCoordinators!AnswerIsMaximal
  BY <1>3, TwoCoordinators!AnswersAreMaximal
<1>5. CoordInit /\ part = "two coordinators" => TwoCoordinators!Init
  BY Zenon DEF CoordInit
<1> QED
  BY <1>1, <1>2, <1>4, <1>5, PTL DEF CoordSpec, TwoCoordinators!Spec

\* ReadsAnswerNewest for any number of replicas and requests: of quorum reads after
\* quorum writes on one coordinator, and of reads while two coordinators write.
THEOREM ReadsAlwaysNewest == CoordSpec => []ReadsAnswerNewest
BY SerialPart, TwoPart, PTL DEF ReadsAnswerNewest

\* ClocksFollowWrites for any number of replicas, requests and restarts, whichever
\* calls are lost.
THEOREM ClocksAlwaysFollow == CoordSpec => []ClocksFollowWrites
BY SerialPart, ConcurrentPart, RestartingPart, PTL DEF ClocksFollowWrites

\* WritesAreAccounted for any number of replicas and requests, at every consistency
\* level.
THEOREM WritesAlwaysAccounted == CoordSpec => []WritesAreAccounted
BY RestartingPart, ConcurrentPart, PTL DEF WritesAreAccounted
==============================================================================
