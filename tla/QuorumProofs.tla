---------------------------- MODULE QuorumProofs ----------------------------
(***************************************************************************)
(* The theorems about the writes and reads of Coordinator that rest on the *)
(* invariant of CoordinatorProofs: that an acknowledged write is on a      *)
(* quorum, that an answer is maximal, that clocks are causal and unique,   *)
(* that a missed write has a hint, and that a read after a write sees it.  *)
(***************************************************************************)
EXTENDS CoordinatorProofs

\* The replicas that answered a write have applied it.
LEMMA AckedStep ==
  ASSUME CoordinatorAssumption, BaseInv, AckedOnQuorum, [Next]_vars
  PROVE  AckedOnQuorum'
<1>1. Types /\ Len(ops) \in Nat /\ DOMAIN ops = 1..Len(ops) /\ acked \subseteq DOMAIN ops
  BY OpsIs DEF BaseInv, TypeOK
<1>2. Grows
  BY StepGrows
<1> DEFINE On(o) == {n \in Nodes : <<n, o>> \in applied}
           Enough(lev, got) == CASE lev = "one" -> got >= 1
                                 [] lev = "all" -> got = Cardinality(Nodes)
                                 [] OTHER -> 2 * got > Cardinality(Nodes)
<1>3. ASSUME NEW A, NEW B \in SUBSET Nodes, A \subseteq B
      PROVE  /\ Cardinality(A) \in Nat /\ Cardinality(B) \in Nat
             /\ Cardinality(A) <= Cardinality(B) /\ Cardinality(B) <= Cardinality(Nodes)
             /\ Cardinality(Nodes) \in Nat
  BY <1>3, FS_Subset, FS_CardinalityType DEF CoordinatorAssumption
<1>4. ASSUME NEW o \in acked PROVE Enough(ops'[o].level, Cardinality(On(o)'))
  <2>1. On(o) \subseteq On(o)' /\ On(o)' \in SUBSET Nodes /\ ops'[o] = ops[o]
    BY <1>1, <1>2 DEF Grows
  <2>2. Enough(ops[o].level, Cardinality(On(o)))
    BY DEF AckedOnQuorum
  <2> HIDE DEF On
  <2> QED
    BY <1>3, <2>1, <2>2
<1>5. ASSUME NEW p \in Procs, FinishWrite(p), acked' # acked, NEW o, o = proc[p].op
      PROVE  Enough(ops'[o].level, Cardinality(On(o)'))
  <2>1. UNCHANGED <<ops, applied>> /\ Quorate(p) /\ proc[p].at = "writing"
    BY <1>1, <1>5, FinishWriteStep, Zenon DEF Quorate
  <2>2. /\ ops[o].level = proc[p].level /\ proc[p].level \in AllLevels
        /\ \A n \in Nodes : proc[p].resp[n] = "ok" => <<n, o>> \in applied
    BY <1>1, <1>5, <2>1, Zenon DEF BaseInv, RequestOK, WriteOK, Types, Request
  <2>3. Successes(p) \subseteq On(o)' /\ On(o)' \in SUBSET Nodes
    BY <2>1, <2>2 DEF Successes
  <2> HIDE DEF On
  <2>4. Cardinality(Successes(p)) >= GetRequiredReplicas(proc[p].level, Cardinality(Nodes), Cardinality(Nodes))
    BY <2>1 DEF Quorate, IsQuorumReached
  <2> QED
    BY <1>3, <2>1, <2>2, <2>3, <2>4 DEF GetRequiredReplicas, CalculateQuorum, AllLevels
<1>6. ASSUME NEW o \in acked' \ acked PROVE Enough(ops'[o].level, Cardinality(On(o)'))
  <2>1. PICK p \in Procs : FinishWrite(p) /\ acked' # acked
    BY <1>6, StepChanges
  <2>2. acked' = acked \cup {proc[p].op}
    BY <1>1, <2>1, FinishWriteStep, Zenon
  <2> QED
    BY <1>5, <1>6, <2>1, <2>2, Zenon
<1> QED
  BY <1>4, <1>6 DEF AckedOnQuorum

\* AckedOnQuorum, whatever is lost, late, refused or restarted: WriteKeyValue answers
\* with success only once the replicas of its level have applied the write.
THEOREM AckedMeansQuorum == ASSUME CoordinatorAssumption PROVE Spec => []AckedOnQuorum
<1>1. Init => AckedOnQuorum
  BY DEF Init, AckedOnQuorum
<1> QED
  BY <1>1, BaseInit, BaseStep, AckedStep, PTL DEF Spec

\* A request is given its answer by FinishRead, and keeps it until it is handed out.
LEMMA ReadKept ==
  ASSUME CoordinatorAssumption, BaseInv, [Next]_vars, NEW p \in Procs, proc'[p].at = "read"
  PROVE  proc'[p] = proc[p] \/ (FinishRead(p) /\ proc'[p] # Idle)
<1>1. Types /\ proc'[p] # Idle
  BY IdleIs, Zenon DEF BaseInv
<1>2. ASSUME NEW q \in Procs, Only(q), proc'[q].at # "read" PROVE proc'[p] = proc[p]
  BY <1>2 DEF Only
<1>3. ASSUME NEW q \in Procs, ReadExistingValue(q) \/ StartWrites(q) \/ FinishWrite(q) \/ ReturnRead(q)
      PROVE  proc'[p] = proc[p]
  <2>1. CASE ReadExistingValue(q)
    BY <1>1, <1>2, <2>1, ReadExistingValueStep
  <2>2. CASE StartWrites(q)
    <3>1. proc[q].base \in 0..Len(ops)
      BY DEF BaseInv, RequestOK
    <3>2. Only(q) /\ proc'[q].at = "writing"
      BY <1>1, <2>2, <3>1, StartWritesStep, Zenon
    <3> QED
      BY <1>2, <3>2
  <2>3. CASE FinishWrite(q) \/ ReturnRead(q)
    BY <1>1, <1>2, <2>3, FinishWriteStep, ReturnReadStep, IdleIs, Zenon
  <2> QED
    BY <1>3, <2>1, <2>2, <2>3
<1>4. ASSUME NEW q \in Procs, NEW l \in Levels, BeginRead(q, l) PROVE proc'[p] = proc[p]
  BY <1>1, <1>2, <1>4, BeginReadStep
<1>5. ASSUME NEW q \in Procs, NEW l \in Levels, NEW k \in IKeys \cup {""}, BeginWrite(q, l, k)
      PROVE  proc'[p] = proc[p]
  BY <1>1, <1>2, <1>5, BeginWriteStep, Zenon
<1>6. ASSUME NEW q \in Procs, NEW n \in Nodes, ReadReplica(q, n) \/ FailRead(q, n)
      PROVE  proc'[p] = proc[p]
  <2>1. Only(q) /\ Same(q) /\ proc[q].at = "reading"
    BY <1>1, <1>6, ReadReplicaStep, FailReadStep, Zenon
  <2> QED
    BY <1>2, <2>1 DEF Same
<1>7. ASSUME NEW q \in Procs, NEW n \in Nodes, NEW f \in Faults, FailWrite(q, n, f)
      PROVE  proc'[p] = proc[p]
  <2>1. Only(q) /\ Same(q) /\ proc[q].at = "writing"
    BY <1>1, <1>7, FailWriteStep, Zenon
  <2> QED
    BY <1>2, <2>1 DEF Same
<1>8. ASSUME NEW n \in Nodes, NEW o \in 1..Len(ops), Deliver(n, o) \/ Refuse(n, o)
      PROVE  proc'[p] = proc[p]
  <2>1. PICK a \in {"ok", "refused"} : proc' = Answer(o, n, a)
    BY <1>8 DEF Deliver, Refuse
  <2>2. a \in Responses
    BY DEF Responses
  <2>3. Same(p)
    BY <1>1, <2>1, <2>2, AnswerStep
  <2>4. p \notin Waiting(o, n)
    BY <2>3 DEF Same, Waiting
  <2> QED
    BY <2>1, <2>4 DEF Answer
<1>9. ASSUME NEW c \in Coords, Restart(c) PROVE proc'[p] = proc[p]
  BY <1>1, <1>9, RestartStep
<1>10. ASSUME Done \/ UNCHANGED vars PROVE proc'[p] = proc[p]
  BY <1>10 DEF Done, vars
<1>11. ASSUME NEW q \in Procs, FinishRead(q) PROVE proc'[p] = proc[p] \/ (q = p /\ proc'[p] # Idle)
  <2>1. CASE q = p
    BY <1>1, <2>1
  <2>2. CASE proc'[q] = Idle
    <3>1. Idle.at # "read" /\ proc'[q].at # "read"
      BY <2>2, IdleIs, Zenon
    <3>2. q # p
      BY <3>1
    <3>3. proc' = [proc EXCEPT ![q] = Idle] \/ \E v : proc' = [proc EXCEPT ![q].at = "read", ![q].op = v]
      BY <1>11, Zenon DEF FinishRead
    <3> QED
      BY <1>1, <3>2, <3>3 DEF Types
  <2>3. CASE proc'[q] # Idle /\ q # p
    <3>1. Only(q)
      BY <1>11, <2>3, ReadReturns, Zenon
    <3> QED
      BY <2>3, <3>1 DEF Only
  <2> QED
    BY <2>1, <2>2, <2>3
<1>12. CASE Next
  BY <1>3, <1>4, <1>5, <1>6, <1>7, <1>8, <1>9, <1>10, <1>11, <1>12, Zenon DEF Next
<1> QED
  BY <1>10, <1>12

\* An answer keeps being maximal, for the clocks of the writes never change.
LEMMA MaximalStep ==
  ASSUME CoordinatorAssumption, BaseInv, AnswerIsMaximal, [Next]_vars
  PROVE  AnswerIsMaximal'
<1> SUFFICES ASSUME NEW p \in Procs, proc'[p].at = "read"
             PROVE  /\ \E n \in Successes(p)' : proc'[p].val[n] = proc'[p].op
                    /\ \A n \in Successes(p)' :
                         Compare(VC(proc[p].val[n])', VC(proc[p].op)') # "After"
  BY Zenon DEF AnswerIsMaximal
<1>1. Types /\ Len(ops) \in Nat
  BY OpsIs DEF BaseInv
<1>2. \A o \in 1..Len(ops) : ops'[o].vc = ops[o].vc /\ o # 0
  BY <1>1, StepGrows DEF Grows
<1>3. CASE proc'[p] = proc[p]
  <2>1. Successes(p)' = Successes(p) /\ proc[p].op \in 1..Len(ops)
    BY <1>3 DEF Successes, BaseInv, RequestOK
  <2>2. \A n \in Successes(p) : proc[p].val[n] \in 1..Len(ops)
    <3>1. applied \subseteq Nodes \X (1..Len(ops))
      BY OpsIs DEF BaseInv, TypeOK
    <3>2. \A n \in Successes(p) : n \in Nodes /\ proc[p].resp[n] = "ok"
      BY DEF Successes
    <3>3. \A n \in Successes(p) : <<n, proc[p].val[n]>> \in applied
      BY <1>3, <3>2 DEF BaseInv, RequestOK, ValuesOK
    <3> QED
      BY <3>1, <3>3, Zenon
  <2>3. /\ \E n \in Successes(p) : proc[p].val[n] = proc[p].op
        /\ \A n \in Successes(p) : Compare(VC(proc[p].val[n]), VC(proc[p].op)) # "After"
    BY <1>3 DEF AnswerIsMaximal
  <2>4. VC(proc[p].op)' = VC(proc[p].op)
    BY <1>2, <1>3, <2>1 DEF VC
  <2>5. \A n \in Successes(p) : VC(proc[p].val[n])' = VC(proc[p].val[n])
    BY <1>2, <1>3, <2>2 DEF VC
  <2> QED
    BY <1>3, <2>1, <2>3, <2>4, <2>5
<1>4. CASE FinishRead(p) /\ proc'[p] # Idle
  <2>1. /\ proc'[p].resp = proc[p].resp /\ proc'[p].val = proc[p].val /\ ops' = ops
        /\ \E n \in Successes(p) : proc[p].val[n] = proc'[p].op
        /\ \A n \in Successes(p) : Compare(VC(proc[p].val[n]), VC(proc'[p].op)) # "After"
    BY <1>4, ReadReturns, Zenon
  <2>2. Successes(p)' = Successes(p)
    BY <2>1 DEF Successes
  <2>3. VC(proc[p].op)' = VC(proc'[p].op) /\ \A n \in Nodes : VC(proc[p].val[n])' = VC(proc[p].val[n])
    BY <2>1 DEF VC
  <2> QED
    BY <2>1, <2>2, <2>3 DEF Successes
<1> QED
  BY <1>3, <1>4, ReadKept

\* AnswerIsMaximal, whatever order the responses are collected in: what DetectConflicts
\* returns is the version of some replica, and no replica answered with a later one.
THEOREM AnswersAreMaximal == ASSUME CoordinatorAssumption PROVE Spec => []AnswerIsMaximal
<1>1. Init => AnswerIsMaximal
  <2>1. Init => \A p \in Procs : proc[p] = Idle
    BY DEF Init
  <2> QED
    BY <2>1, IdleIs, Zenon DEF AnswerIsMaximal
<1> QED
  BY <1>1, BaseInit, BaseStep, MaximalStep, PTL DEF Spec

\* The clock of the next write is after that of the version it read.
LEMMA CausalStep ==
  ASSUME CoordinatorAssumption, BaseInv, CausalClocks, [Next]_vars
  PROVE  CausalClocks'
<1>1. Types /\ Len(ops) \in Nat /\ DOMAIN ops = 1..Len(ops)
  BY OpsIs DEF BaseInv
<1>2. CASE ops' = ops
  BY <1>2 DEF CausalClocks
<1>3. ASSUME NEW p \in Procs, StartWrites(p) PROVE CausalClocks'
  <2> DEFINE o == Len(ops) + 1
             b == proc[p].base
  <2>1. b \in 0..Len(ops)
    BY DEF BaseInv, RequestOK
  <2>2. /\ DOMAIN ops' = 1..o /\ (\A i \in 1..Len(ops) : ops'[i] = ops[i])
        /\ ops'[o].vc = TakeClock(p).vc /\ ops'[o].base = b
    BY <1>1, <1>3, <2>1, StartWritesStep
  <2>3. ASSUME b # 0 PROVE Compare(TakeClock(p).vc, ops[b].vc) = "After"
    <3>1. b \in 1..Len(ops)
      BY <1>1, <2>1, <2>3
    <3>2. IsClock(ops[b].vc)
      <4>1. ops[b].vc \in Clock
        BY <1>1, <3>1, OpsIs DEF Write
      <4> QED
        BY <4>1 DEF Clock, IsClock
    <3>3. TakeClock(p) = IncrementFrom(ops[b].vc, local[Home[p]], Home[p])
      BY <2>3 DEF TakeClock, VC
    <3>4. local[Home[p]] \in Nat
      BY <1>1 DEF CoordinatorAssumption, Types
    <3> QED
      BY <3>2, <3>3, <3>4, IncrementFromIsAfter, Zenon
  <2>4. \A i \in 1..Len(ops) : ops[i].base \in 0..(i - 1)
    BY <1>1 DEF BaseInv, TypeOK
  <2>5. ASSUME NEW i \in 1..Len(ops), ops'[i].base # 0
        PROVE  Compare(ops'[i].vc, ops'[ops'[i].base].vc) = "After"
    <3>1. ops'[i] = ops[i] /\ ops[i].base \in 1..Len(ops)
      BY <1>1, <2>2, <2>4, <2>5
    <3>2. Compare(ops[i].vc, ops[ops[i].base].vc) = "After"
      BY <1>1, <2>5, <3>1 DEF CausalClocks
    <3> QED
      BY <2>2, <3>1, <3>2
  <2>6. ASSUME b # 0 PROVE Compare(ops'[o].vc, ops'[ops'[o].base].vc) = "After"
    <3>1. b \in 1..Len(ops)
      BY <1>1, <2>1, <2>6
    <3> QED
      BY <2>2, <2>3, <2>6, <3>1
  <2>7. \A i \in 1..o : i = o \/ i \in 1..Len(ops)
    BY <1>1
  <2> HIDE DEF o, b
  <2> QED
    BY <2>2, <2>5, <2>6, <2>7 DEF CausalClocks
<1> QED
  BY <1>2, <1>3, StepChanges

\* CausalClocks, across restarts too: IncrementFrom makes up for the local timestamp
\* that a restart forgets.
THEOREM ClocksAreCausal == ASSUME CoordinatorAssumption PROVE Spec => []CausalClocks
<1>1. Init => CausalClocks
  BY DEF Init, CausalClocks
<1> QED
  BY <1>1, BaseInit, BaseStep, CausalStep, PTL DEF Spec

\* Without restarts a coordinator never gives a timestamp twice, and a clock holds only
\* timestamps that were given to a write made before or to the write itself.
Own(o) == ops[o].vc[ops[o].coord]
TimesOK(o) ==
  /\ IsFiniteSet(DOMAIN ops[o].vc) /\ ops[o].coord \in DOMAIN ops[o].vc
  /\ Own(o) <= local[ops[o].coord]
  /\ \A u \in DOMAIN ops : o < u /\ ops[u].coord = ops[o].coord => Own(o) < Own(u)
  /\ \A n \in DOMAIN ops[o].vc : \E w \in 1..o : ops[w].coord = n /\ Own(w) = ops[o].vc[n]
RestartsOK == restarts \in Nat
TimesInv == \A o \in DOMAIN ops : TimesOK(o)

\* The entries of the clock of a write are numbers.
LEMMA ClockEntries ==
  ASSUME Types, NEW o \in 1..Len(ops)
  PROVE  /\ ops[o].coord \in Coords /\ IsClock(ops[o].vc)
         /\ \A n \in DOMAIN ops[o].vc : ops[o].vc[n] \in Nat
<1>1. ops[o].vc \in Clock /\ ops[o].coord \in Coords
  BY OpsIs DEF Write
<1>2. PICK D \in SUBSET Coords : ops[o].vc \in [D -> Nat]
  BY <1>1, Zenon DEF Clock
<1> QED
  BY <1>1, <1>2, Zenon DEF IsClock

\* The timestamps stay that way when a write is made.
LEMMA TimesStep ==
  ASSUME CoordinatorAssumption, BaseInv, TimesInv, MaxRestarts = 0, RestartsOK, [Next]_vars
  PROVE  TimesInv'
<1>1. Types /\ Len(ops) \in Nat /\ DOMAIN ops = 1..Len(ops)
  BY OpsIs DEF BaseInv
<1>2. CASE ops' = ops /\ local' = local
  BY <1>2 DEF TimesInv, TimesOK, Own
<1>3. ASSUME NEW c \in Coords, Restart(c) PROVE FALSE
  BY <1>3 DEF Restart, RestartsOK
<1>4. ASSUME NEW p \in Procs, StartWrites(p), NEW m, m = Len(ops) + 1, NEW c, c = Home[p]
      PROVE  TimesInv'
  <2> DEFINE b == proc[p].base
             old == IF b = 0 THEN EmptyClock ELSE ops[b].vc
             new == TakeClock(p)
  <2>1. b \in 0..Len(ops) /\ c \in Coords /\ local[c] \in Nat /\ local \in [Coords -> Nat]
    BY <1>1, <1>4 DEF BaseInv, RequestOK, CoordinatorAssumption, Types
  <2>2. /\ DOMAIN ops' = 1..m /\ (\A i \in 1..Len(ops) : ops'[i] = ops[i])
        /\ ops'[m].vc = new.vc /\ ops'[m].coord = c
        /\ local' = [local EXCEPT ![c] = new.local]
    BY <1>1, <1>4, <2>1, StartWritesStep
  <2>3. /\ new.local \in Nat /\ new.local > local[c]
        /\ DOMAIN new.vc = DOMAIN old \cup {c} /\ new.vc[c] = new.local
        /\ \A n \in DOMAIN old : n # c => new.vc[n] = old[n]
    BY <1>1, <1>4, <2>1, TakeClockIs
  <2>4. IsFiniteSet(DOMAIN old) /\ \A n \in DOMAIN old : \E w \in 1..Len(ops) : ops[w].coord = n /\ Own(w) = old[n]
    <3>1. CASE b = 0
      BY <3>1, FS_EmptySet DEF EmptyClock
    <3>2. CASE b # 0
      <4>1. b \in 1..Len(ops) /\ old = ops[b].vc
        BY <1>1, <2>1, <3>2
      <4>2. TimesOK(b)
        BY <1>1, <4>1 DEF TimesInv
      <4>3. \A w \in 1..b : w \in 1..Len(ops)
        BY <1>1, <4>1
      <4> HIDE DEF old, b
      <4> QED
        BY <4>1, <4>2, <4>3 DEF TimesOK
    <3> QED
      BY <3>1, <3>2
  <2> HIDE DEF old, b, new
  <2>5. \A i \in 1..Len(ops) : Own(i)' = Own(i) /\ i \in 1..m /\ i < m
    BY <1>1, <1>4, <2>2 DEF Own
  <2>6. Own(m)' = new.local
    BY <2>2, <2>3 DEF Own
  <2>7. m \in 1..m /\ m \in Nat /\ \A i \in 1..m : i = m \/ i \in 1..Len(ops)
    BY <1>1, <1>4
  <2>8. ASSUME NEW i \in 1..Len(ops) PROVE TimesOK(i)'
    <3>1. TimesOK(i) /\ Own(i) \in Nat /\ ops[i].coord \in Coords /\ ops'[i] = ops[i]
      BY <1>1, <2>2, ClockEntries DEF TimesInv, TimesOK, Own
    <3>2. Own(i) <= local'[ops[i].coord]
      BY <2>1, <2>2, <2>3, <3>1 DEF TimesOK
    <3>3. ASSUME NEW u \in 1..m, i < u, ops'[u].coord = ops[i].coord PROVE Own(i) < Own(u)'
      <4>1. CASE u = m
        BY <2>1, <2>2, <2>3, <2>6, <3>1, <3>3, <4>1 DEF TimesOK
      <4>2. CASE u # m
        BY <1>1, <2>2, <2>5, <2>7, <3>1, <3>3, <4>2 DEF TimesOK
      <4> QED
        BY <4>1, <4>2
    <3>4. \A w \in 1..i : w \in 1..Len(ops)
      BY <1>1
    <3>5. \A n \in DOMAIN ops[i].vc : \E w \in 1..i : ops'[w].coord = n /\ Own(w)' = ops[i].vc[n]
      BY <2>2, <2>5, <3>1, <3>4 DEF TimesOK
    <3> QED
      BY <2>2, <2>5, <3>1, <3>2, <3>3, <3>5 DEF TimesOK
  <2>9. TimesOK(m)'
    <3>1. IsFiniteSet(DOMAIN new.vc)
      BY <2>3, <2>4, FS_AddElement
    <3>2. local'[c] = new.local
      BY <2>1, <2>2
    <3>3. \A u \in 1..m : ~(m < u)
      BY <2>7
    <3>4. \A n \in DOMAIN new.vc : \E w \in 1..m : ops'[w].coord = n /\ Own(w)' = new.vc[n]
      BY <2>2, <2>3, <2>4, <2>5, <2>6, <2>7
    <3> QED
      BY <2>2, <2>3, <2>6, <3>1, <3>2, <3>3, <3>4 DEF TimesOK
  <2> QED
    BY <2>2, <2>7, <2>8, <2>9 DEF TimesInv
<1> QED
  BY <1>2, <1>3, <1>4, StepChanges, Zenon

\* The restarts are counted.
LEMMA RestartsStep ==
  ASSUME RestartsOK, [Next]_vars
  PROVE  RestartsOK'
<1>1. restarts' = restarts \/ restarts' = restarts + 1
  BY Zenon DEF Next, vars, ReadExistingValue, StartWrites, FinishWrite, FinishRead, ReturnRead, BeginRead,
         BeginWrite, ReadReplica, FailRead, FailWrite, Deliver, Refuse, Restart, Done
<1> QED
  BY <1>1 DEF RestartsOK

\* The timestamps are always that way if no coordinator restarts.
LEMMA TimesAlways ==
  ASSUME CoordinatorAssumption, MaxRestarts = 0
  PROVE  Spec => [](BaseInv /\ TimesInv /\ RestartsOK)
<1>1. Init => TimesInv /\ RestartsOK
  BY DEF Init, TimesInv, RestartsOK
<1> QED
  BY <1>1, BaseInit, BaseStep, TimesStep, RestartsStep, PTL DEF Spec

\* UniqueClocks for any number of coordinators, if none of them restarts (after a restart
\* the local timestamp starts again from zero, and a write that finds no version repeats
\* a clock).
THEOREM ClocksAreUnique ==
  ASSUME CoordinatorAssumption, MaxRestarts = 0
  PROVE  Spec => []UniqueClocks
<1>1. ASSUME BaseInv, TimesInv, NEW o \in 1..Len(ops), NEW u \in 1..Len(ops), u < o,
             DOMAIN ops[o].vc = DOMAIN ops[u].vc,
             \A n \in DOMAIN ops[o].vc : ops[o].vc[n] = ops[u].vc[n]
      PROVE  FALSE
  <2>1. Len(ops) \in Nat /\ DOMAIN ops = 1..Len(ops) /\ TimesOK(o) /\ TimesOK(u)
    BY <1>1, OpsIs DEF BaseInv, TimesInv
  <2>2. PICK w \in 1..u : ops[w].coord = ops[o].coord /\ Own(w) = Own(o)
    BY <1>1, <2>1 DEF TimesOK, Own
  <2>3. w \in 1..Len(ops) /\ w < o /\ TimesOK(w)
    BY <1>1, <2>1 DEF TimesInv
  <2>4. Own(o) \in Nat
    BY <1>1, <2>1, ClockEntries DEF BaseInv, TimesOK, Own
  <2> QED
    BY <2>1, <2>2, <2>3, <2>4 DEF TimesOK
<1>2. BaseInv /\ TimesInv => UniqueClocks
  <2> SUFFICES ASSUME BaseInv, TimesInv, NEW o \in DOMAIN ops, NEW u \in DOMAIN ops, o # u,
                      Equals(ops[o].vc, ops[u].vc)
               PROVE  FALSE
    BY DEF UniqueClocks
  <2>1. Len(ops) \in Nat /\ DOMAIN ops = 1..Len(ops) /\ TimesOK(o) /\ TimesOK(u)
    BY OpsIs DEF BaseInv, TimesInv
  <2>2. DOMAIN ops[o].vc = DOMAIN ops[u].vc
    <3>1. IsFiniteSet(DOMAIN ops[o].vc) /\ DOMAIN ops[u].vc \subseteq DOMAIN ops[o].vc
          /\ Cardinality(DOMAIN ops[o].vc) = Cardinality(DOMAIN ops[u].vc)
      BY <2>1 DEF TimesOK, Equals
    <3> QED
      BY <3>1, FS_Subset
  <2>3. \A n \in DOMAIN ops[o].vc : ops[o].vc[n] = ops[u].vc[n]
    BY <2>2 DEF Equals
  <2> QED
    BY <1>1, <2>1, <2>2, <2>3
<1> QED
  BY <1>2, TimesAlways, PTL

\* With one coordinator the clocks of its writes are ordered as the writes are.
LEMMA OneCoordinatorOrders ==
  ASSUME CoordinatorAssumption, BaseInv, TimesInv, NEW c, Coords = {c},
         NEW o \in 1..Len(ops), NEW u \in 1..Len(ops), u < o
  PROVE  Compare(ops[o].vc, ops[u].vc) = "After"
<1>1. Types /\ Len(ops) \in Nat /\ DOMAIN ops = 1..Len(ops) /\ TimesOK(o) /\ TimesOK(u)
  BY OpsIs DEF BaseInv, TimesInv
<1>2. ASSUME NEW i \in 1..Len(ops), TimesOK(i)
      PROVE  DOMAIN ops[i].vc = {c} /\ Own(i) = ops[i].vc[c] /\ Own(i) \in Nat /\ IsClock(ops[i].vc)
  <2>1. /\ ops[i].coord = c /\ IsClock(ops[i].vc) /\ \A n \in DOMAIN ops[i].vc : ops[i].vc[n] \in Nat
    BY <1>1, ClockEntries
  <2>2. \A w \in 1..i : w \in 1..Len(ops)
    BY <1>1
  <2>3. \A w \in 1..Len(ops) : ops[w].coord = c
    BY <1>1, ClockEntries
  <2> QED
    BY <1>2, <2>1, <2>2, <2>3 DEF TimesOK, Own
<1>3. Own(u) < Own(o)
  BY <1>1, <1>2, ClockEntries DEF TimesOK
<1>4. /\ DOMAIN ops[o].vc = {c} /\ DOMAIN ops[u].vc = {c} /\ ops[u].vc[c] < ops[o].vc[c]
      /\ ops[u].vc[c] \in Nat /\ ops[o].vc[c] \in Nat
  BY <1>1, <1>2, <1>3
<1> QED
  BY <1>4 DEF Compare, At

\* WritesFollowAcked for the requests of one coordinator that does not restart, however
\* many there are and whatever they read before they write.
THEOREM WritesAreOrdered ==
  ASSUME CoordinatorAssumption, MaxRestarts = 0, NEW c, Coords = {c}
  PROVE  Spec => []WritesFollowAcked
<1>1. BaseInv /\ TimesInv => WritesFollowAcked
  <2> SUFFICES ASSUME BaseInv, TimesInv, NEW o \in DOMAIN ops, NEW a \in ops[o].after
               PROVE  Compare(ops[o].vc, ops[a].vc) = "After"
    BY DEF WritesFollowAcked
  <2>1. Len(ops) \in Nat /\ DOMAIN ops = 1..Len(ops) /\ a \in 1..(o - 1)
    BY OpsIs DEF BaseInv, AfterBefore
  <2>2. a \in 1..Len(ops) /\ o \in 1..Len(ops) /\ a < o
    BY <2>1
  <2> QED
    BY <2>2, OneCoordinatorOrders, Zenon
<1> QED
  BY <1>1, TimesAlways, PTL

\* A write under way: a replica whose call failed has a hint.
Hinted(p) ==
  proc[p].at = "writing" =>
    \A n \in Nodes : /\ proc[p].resp[n] \in {"pending", "ok", "error"}
                     /\ proc[p].resp[n] = "error" => <<Home[p], n, proc[p].op>> \in hints
HintsInv == HintForEveryMiss /\ \A p \in Procs : Hinted(p)

\* What a step does to a write under way.
LEMMA WriteKept ==
  ASSUME CoordinatorAssumption, BaseInv, MaxRestarts = 0, RestartsOK, [Next]_vars
  PROVE  /\ hints \subseteq hints'
         /\ \A p \in Procs : proc'[p].at = "writing" =>
              \/ StartWrites(p)
              \/ /\ proc[p].at = "writing" /\ proc'[p].op = proc[p].op
                 /\ \A n \in Nodes :
                      \/ proc'[p].resp[n] = proc[p].resp[n] \/ proc'[p].resp[n] = "ok"
                      \/ proc'[p].resp[n] = "refused" /\ "refused" \in Faults
                      \/ proc'[p].resp[n] = "error" /\ <<Home[p], n, proc[p].op>> \in hints'
         /\ \A m \in net \ net' : m \in applied' \/ "refused" \in Faults \/ m[2] \notin acked'
<1> DEFINE Kept(p) ==
             proc'[p].at = "writing" =>
              \/ StartWrites(p)
              \/ /\ proc[p].at = "writing" /\ proc'[p].op = proc[p].op
                 /\ \A n \in Nodes :
                      \/ proc'[p].resp[n] = proc[p].resp[n] \/ proc'[p].resp[n] = "ok"
                      \/ proc'[p].resp[n] = "refused" /\ "refused" \in Faults
                      \/ proc'[p].resp[n] = "error" /\ <<Home[p], n, proc[p].op>> \in hints'
           Goal == /\ hints \subseteq hints' /\ \A p \in Procs : Kept(p)
                   /\ \A m \in net \ net' : m \in applied' \/ "refused" \in Faults \/ m[2] \notin acked'
<1>1. Types
  BY DEF BaseInv
<1>2. ASSUME NEW q \in Procs, Only(q), Kept(q), hints \subseteq hints', net' = net PROVE Goal
  BY <1>2 DEF Only
<1>3. ASSUME NEW q \in Procs, ReadExistingValue(q) \/ FinishWrite(q) \/ ReturnRead(q) PROVE Goal
  <2>1. Only(q) /\ proc'[q].at # "writing" /\ UNCHANGED <<hints, net>>
    BY <1>1, <1>3, ReadExistingValueStep, FinishWriteStep, ReturnReadStep, IdleIs, Zenon
  <2> QED
    BY <1>2, <2>1
<1>4. ASSUME NEW q \in Procs, StartWrites(q) PROVE Goal
  <2>1. proc[q].base \in 0..Len(ops)
    BY DEF BaseInv, RequestOK
  <2>2. Only(q) /\ UNCHANGED hints /\ net \subseteq net'
    BY <1>1, <1>4, <2>1, StartWritesStep
  <2> QED
    BY <1>4, <2>2 DEF Only
<1>5. ASSUME NEW q \in Procs, FinishRead(q) PROVE Goal
  <2>1. proc \in [Procs -> Request] /\ hints \subseteq hints' /\ net' = net
    BY <1>1, <1>5 DEF FinishRead, Types
  <2>2. proc' = [proc EXCEPT ![q] = Idle] \/ \E v : proc' = [proc EXCEPT ![q].at = "read", ![q].op = v]
    BY <1>5, Zenon DEF FinishRead
  <2>3. \A p \in Procs \ {q} : proc'[p] = proc[p]
    BY <2>1, <2>2
  <2>4. proc'[q].at # "writing"
    <3>1. CASE proc'[q] = Idle
      BY <3>1, IdleIs, Zenon
    <3>2. CASE proc'[q] # Idle
      BY <1>5, <3>2, ReadReturns
    <3> QED
      BY <3>1, <3>2
  <2> QED
    BY <2>1, <2>3, <2>4
<1>6. ASSUME NEW q \in Procs, NEW l \in Levels, BeginRead(q, l) PROVE Goal
  <2>1. Only(q) /\ proc'[q].at # "writing" /\ UNCHANGED <<hints, net>>
    BY <1>1, <1>6, BeginReadStep
  <2> QED
    BY <1>2, <2>1
<1>7. ASSUME NEW q \in Procs, NEW l \in Levels, NEW k \in IKeys \cup {""}, BeginWrite(q, l, k)
      PROVE  Goal
  <2>1. Only(q) /\ proc'[q].at # "writing" /\ UNCHANGED <<hints, net>>
    BY <1>1, <1>7, BeginWriteStep, Zenon
  <2> QED
    BY <1>2, <2>1, Zenon
<1>8. ASSUME NEW q \in Procs, NEW n \in Nodes, ReadReplica(q, n) \/ FailRead(q, n) PROVE Goal
  <2>1. Only(q) /\ Same(q) /\ proc[q].at = "reading" /\ UNCHANGED <<hints, net>>
    BY <1>1, <1>8, ReadReplicaStep, FailReadStep, Zenon
  <2> QED
    BY <1>2, <2>1 DEF Same
<1>9. ASSUME NEW q \in Procs, NEW n \in Nodes, NEW f \in Faults, FailWrite(q, n, f) PROVE Goal
  <2>1. /\ Only(q) /\ Same(q) /\ UNCHANGED <<acked, applied>> /\ proc[q].at = "writing"
        /\ proc'[q].resp = [proc[q].resp EXCEPT ![n] = "error"]
        /\ hints' = hints \cup {<<Home[q], n, proc[q].op>>}
        /\ net' = IF f = "lost" THEN net \ {<<n, proc[q].op>>} ELSE net
    BY <1>1, <1>9, FailWriteStep
  <2>2. proc[q].op \notin acked
    BY <2>1 DEF BaseInv, RequestOK, WriteOK
  <2>3. proc[q].resp \in [Nodes -> Responses]
    BY <1>1, Zenon DEF Types, Request
  <2>4. Kept(q)
    BY <2>1, <2>3 DEF Same
  <2>5. \A p \in Procs : Kept(p)
    BY <2>1, <2>4, Zenon DEF Only
  <2>6. \A m \in net \ net' : m = <<n, proc[q].op>>
    BY <2>1
  <2>7. \A m \in net \ net' : m[2] \notin acked'
    BY <2>1, <2>2, <2>6
  <2> HIDE DEF Kept
  <2> QED
    BY <2>1, <2>5, <2>7
<1>10. ASSUME NEW n \in Nodes, NEW o \in 1..Len(ops), Deliver(n, o) \/ Refuse(n, o) PROVE Goal
  <2>1. PICK a \in {"ok", "refused"} : proc' = Answer(o, n, a) /\ (a = "refused" => "refused" \in Faults)
    BY <1>10 DEF Deliver, Refuse
  <2>2. a \in Responses
    BY DEF Responses
  <2>3. \A q \in Procs : /\ Same(q)
                         /\ \A m \in Nodes : proc'[q].resp[m] =
                               IF q \in Waiting(o, n) /\ m = n THEN a ELSE proc[q].resp[m]
    BY <1>1, <2>1, <2>2, AnswerStep
  <2>4. hints' = hints /\ net' = net \ {<<n, o>>} /\ (<<n, o>> \in applied' \/ "refused" \in Faults)
    BY <1>10 DEF Deliver, Refuse
  <2> QED
    BY <2>1, <2>3, <2>4 DEF Same
<1>11. ASSUME NEW c \in Coords, Restart(c) PROVE FALSE
  BY <1>11 DEF Restart, RestartsOK
<1>12. ASSUME Done \/ UNCHANGED vars PROVE Goal
  BY <1>12 DEF Done, vars
<1> HIDE DEF Goal
<1>13. ASSUME Next PROVE Goal
  BY <1>3, <1>4, <1>5, <1>6, <1>7, <1>8, <1>9, <1>10, <1>11, <1>12, <1>13, Zenon DEF Next
<1>14. Goal
  BY <1>12, <1>13, Zenon
<1> QED
  BY <1>14, Zenon DEF Goal

\* The hints stay complete: only a delivery or a failed call takes a message away.
LEMMA HintsStep ==
  ASSUME CoordinatorAssumption, "refused" \notin Faults, MaxRestarts = 0,
         BaseInv, HintsInv, RestartsOK, [Next]_vars
  PROVE  HintsInv'
<1>1. Types /\ DOMAIN ops = 1..Len(ops) /\ acked \subseteq DOMAIN ops
  BY OpsIs DEF BaseInv, TypeOK
<1>2. Grows
  BY StepGrows
<1>3. ASSUME NEW p \in Procs PROVE Hinted(p)'
  <2> SUFFICES ASSUME proc'[p].at = "writing", NEW n \in Nodes
               PROVE  /\ proc'[p].resp[n] \in {"pending", "ok", "error"}
                      /\ proc'[p].resp[n] = "error" => <<Home[p], n, proc'[p].op>> \in hints'
    BY DEF Hinted
  <2>1. CASE StartWrites(p)
    <3>1. proc[p].base \in 0..Len(ops)
      BY DEF BaseInv, RequestOK
    <3>2. proc'[p].resp[n] = "pending"
      BY <1>1, <2>1, <3>1, StartWritesStep
    <3> QED
      BY <3>2
  <2>2. CASE ~StartWrites(p)
    <3>1. /\ proc[p].at = "writing" /\ proc'[p].op = proc[p].op /\ hints \subseteq hints'
          /\ \/ proc'[p].resp[n] = proc[p].resp[n] \/ proc'[p].resp[n] = "ok"
             \/ proc'[p].resp[n] = "error" /\ <<Home[p], n, proc[p].op>> \in hints'
      BY <2>2, WriteKept
    <3>2. /\ proc[p].resp[n] \in {"pending", "ok", "error"}
          /\ proc[p].resp[n] = "error" => <<Home[p], n, proc[p].op>> \in hints
      BY <3>1 DEF HintsInv, Hinted
    <3> QED
      BY <3>1, <3>2
  <2> QED
    BY <2>1, <2>2
<1>4. ASSUME NEW o \in acked', NEW n \in Nodes
      PROVE  <<n, o>> \in applied' \cup net' \/ <<ops'[o].coord, n, o>> \in hints'
  <2>1. CASE o \in acked
    <3>1. <<n, o>> \in applied \cup net \/ <<ops[o].coord, n, o>> \in hints
      BY <2>1 DEF HintsInv, HintForEveryMiss
    <3>2. ops'[o] = ops[o] /\ applied \subseteq applied'
      BY <1>1, <1>2, <2>1 DEF Grows
    <3>3. hints \subseteq hints' /\ (<<n, o>> \in net => <<n, o>> \in applied' \cup net')
      BY <1>4, WriteKept
    <3> QED
      BY <3>1, <3>2, <3>3
  <2>2. CASE o \notin acked
    <3>1. PICK p \in Procs : FinishWrite(p)
      BY <1>4, <2>2, StepChanges
    <3>2. /\ UNCHANGED <<ops, applied, net, hints>> /\ proc[p].at = "writing" /\ AnsweredAll(p)
          /\ o = proc[p].op
      BY <1>1, <1>4, <2>2, <3>1, FinishWriteStep, Zenon
    <3>3. /\ proc[p].resp[n] = "ok" => <<n, o>> \in applied
          /\ ops[o].coord = Home[p]
      BY <3>2 DEF BaseInv, RequestOK, WriteOK
    <3>4. proc[p].resp[n] \in {"ok", "error"} /\ (proc[p].resp[n] = "error" => <<Home[p], n, o>> \in hints)
      BY <3>2 DEF HintsInv, Hinted, AnsweredAll
    <3> QED
      BY <3>2, <3>3, <3>4
  <2> QED
    BY <2>1, <2>2
<1> QED
  BY <1>3, <1>4 DEF HintsInv, HintForEveryMiss

\* HintForEveryMiss, when no storage node answers Success=false and no coordinator
\* restarts: those are the two ways to miss a write and leave no hint (a refusal is no
\* error of the call, and hints are in memory).
THEOREM MissesAreHinted ==
  ASSUME CoordinatorAssumption, "refused" \notin Faults, MaxRestarts = 0
  PROVE  Spec => []HintForEveryMiss
<1>1. Init => HintsInv /\ RestartsOK
  <2>1. Init => \A p \in Procs : proc[p].at = "idle"
    BY IdleIs, Zenon DEF Init
  <2>2. Init => HintForEveryMiss /\ RestartsOK
    BY DEF Init, HintForEveryMiss, RestartsOK
  <2> QED
    BY <2>1, <2>2 DEF HintsInv, Hinted
<1>2. HintsInv => HintForEveryMiss
  BY DEF HintsInv
<1> QED
  BY <1>1, <1>2, BaseInit, BaseStep, HintsStep, RestartsStep, PTL DEF Spec

\* One request at a time: a message is under way only for the write in progress, a replica
\* holds the last write it applied, and a read holds what the replicas hold.
Under(p) == \A m \in net : m[2] = Len(ops) /\ proc[p].resp[m[1]] = "pending"
Reads(p) == \A n \in Nodes : proc[p].resp[n] = "ok" => proc[p].val[n] = store[n]
InOrder == \A m \in applied : m[2] <= store[m[1]]
Majorities(p) == proc[p].level # "one" /\ \A o \in DOMAIN ops : ops[o].level # "one"
SerialInv(p) ==
  /\ IF proc[p].at = "writing" THEN proc[p].op = Len(ops) /\ Under(p) ELSE net = {}
  /\ proc[p].at \in {"reading", "read"} => Reads(p)
  /\ InOrder /\ Majorities(p)

\* That holds as long as the coordinator does not restart and no message outlives its
\* call.
LEMMA SerialStep ==
  ASSUME CoordinatorAssumption, NEW p, Procs = {p}, "one" \notin Levels, "late" \notin Faults,
         MaxRestarts = 0, RestartsOK, BaseInv, SerialInv(p), [Next]_vars
  PROVE  SerialInv(p)'
<1>1. Types /\ Len(ops) \in Nat /\ DOMAIN ops = 1..Len(ops) /\ p \in Procs
      /\ proc[p].base \in 0..Len(ops)
  BY OpsIs DEF BaseInv, RequestOK
<1>2. applied \subseteq Nodes \X (1..Len(ops)) /\ net \subseteq Nodes \X (1..Len(ops))
  BY <1>1 DEF BaseInv, TypeOK
<1>3. ASSUME UNCHANGED <<ops, store, net, applied>>, proc[p].at # "writing", proc'[p].at # "writing",
             proc'[p].at \in {"reading", "read"} => Reads(p)', proc'[p].level # "one"
      PROVE  SerialInv(p)'
  BY <1>3 DEF SerialInv, InOrder, Majorities
<1>4. CASE ReadExistingValue(p)
  <2>1. /\ proc'[p].at = "clock" /\ proc'[p].level = proc[p].level
        /\ UNCHANGED <<ops, store, net, applied>> /\ proc[p].at = "existing"
    BY <1>1, <1>4, ReadExistingValueStep, Zenon DEF ReadExistingValue
  <2> QED
    BY <1>3, <2>1 DEF SerialInv, Majorities
<1>5. CASE StartWrites(p)
  <2> DEFINE o == Len(ops) + 1
  <2>1. /\ UNCHANGED <<store, applied>> /\ proc[p].at = "clock" /\ proc'[p].at = "writing"
        /\ proc'[p].op = o /\ proc'[p].level = proc[p].level
        /\ (\A n \in Nodes : proc'[p].resp[n] = "pending")
        /\ Len(ops') = o /\ DOMAIN ops' = 1..o
        /\ (\A i \in 1..Len(ops) : ops'[i] = ops[i])
        /\ ops'[o].level = proc[p].level /\ net' = net \cup (Nodes \X {o})
    BY <1>1, <1>5, StartWritesStep
  <2>2. net = {} /\ InOrder /\ Majorities(p)
    BY <2>1 DEF SerialInv
  <2>3. Under(p)'
    BY <2>1, <2>2 DEF Under
  <2>4. \A i \in 1..o : i = o \/ i \in 1..Len(ops)
    BY <1>1
  <2> HIDE DEF o
  <2>5. Majorities(p)'
    BY <1>1, <2>1, <2>2, <2>4 DEF Majorities
  <2> QED
    BY <2>1, <2>2, <2>3, <2>5 DEF SerialInv, InOrder
<1>6. CASE FinishWrite(p)
  <2>1. /\ UNCHANGED <<ops, store, net, applied>> /\ proc[p].at = "writing" /\ AnsweredAll(p)
        /\ proc'[p].at = "idle" /\ proc'[p].level = "quorum"
    BY <1>1, <1>6, FinishWriteStep, IdleIs, Zenon
  <2>2. net = {}
    BY <1>2, <2>1 DEF SerialInv, Under, AnsweredAll
  <2> QED
    BY <2>1, <2>2 DEF SerialInv, InOrder, Majorities
<1>7. CASE ReturnRead(p)
  <2>1. /\ UNCHANGED <<ops, store, net, applied>> /\ proc[p].at = "read"
        /\ proc'[p].at = "idle" /\ proc'[p].level = "quorum"
    BY <1>1, <1>7, ReturnReadStep, IdleIs, Zenon DEF ReturnRead
  <2> QED
    BY <1>3, <2>1
<1>8. CASE FinishRead(p)
  <2>1. UNCHANGED <<ops, store, net, applied>> /\ proc[p].at = "reading"
    BY <1>1, <1>8, FinishReadStep, Zenon
  <2>2. CASE proc'[p] = Idle
    <3>1. proc'[p].at = "idle" /\ proc'[p].level = "quorum"
      BY <2>2, IdleIs, Zenon
    <3> QED
      BY <1>3, <2>1, <3>1
  <2>3. CASE proc'[p] # Idle
    <3>1. /\ proc'[p].at = "read" /\ proc'[p].level = proc[p].level
          /\ proc'[p].resp = proc[p].resp /\ proc'[p].val = proc[p].val
      BY <1>1, <1>8, <2>3, ReadReturns, Zenon
    <3>2. Reads(p)'
      BY <2>1, <3>1 DEF SerialInv, Reads
    <3> QED
      BY <1>3, <2>1, <3>1, <3>2 DEF SerialInv, Majorities
  <2> QED
    BY <2>2, <2>3
<1>9. ASSUME NEW l \in Levels, BeginRead(p, l) PROVE SerialInv(p)'
  <2>1. /\ UNCHANGED <<ops, store, net, applied>> /\ proc[p].at = "idle" /\ proc'[p].at = "reading"
        /\ proc'[p].level = l /\ \A n \in Nodes : proc'[p].resp[n] = "pending"
    BY <1>1, <1>9, BeginReadStep
  <2>2. Reads(p)'
    BY <2>1 DEF Reads
  <2> QED
    BY <1>3, <2>1, <2>2
<1>10. ASSUME NEW l \in Levels, NEW k \in IKeys \cup {""}, BeginWrite(p, l, k) PROVE SerialInv(p)'
  <2>1. /\ UNCHANGED <<ops, store, net, applied>> /\ proc[p].at = "idle" /\ proc'[p].at = "existing"
        /\ proc'[p].level = l
    BY <1>1, <1>10, BeginWriteStep, Zenon DEF BeginWrite
  <2> QED
    BY <1>3, <2>1, Zenon
<1>11. ASSUME NEW n \in Nodes, ReadReplica(p, n) \/ FailRead(p, n) PROVE SerialInv(p)'
  <2>1. /\ Same(p) /\ UNCHANGED <<ops, store, net, applied>> /\ proc[p].at = "reading"
        /\ \/ /\ proc'[p].resp = [proc[p].resp EXCEPT ![n] = IF store[n] = 0 THEN "notfound" ELSE "ok"]
              /\ proc'[p].val = [proc[p].val EXCEPT ![n] = store[n]]
           \/ /\ proc'[p].resp = [proc[p].resp EXCEPT ![n] = "error"] /\ proc'[p].val = proc[p].val
    BY <1>1, <1>11, ReadReplicaStep, FailReadStep, Zenon
  <2>2. proc[p].resp \in [Nodes -> Responses] /\ proc[p].val \in [Nodes -> Nat]
    BY <1>1, Zenon DEF Types, Request
  <2>3. Reads(p)'
    BY <2>1, <2>2 DEF SerialInv, Reads
  <2> QED
    BY <1>3, <2>1, <2>3 DEF Same, SerialInv, Majorities
<1>12. ASSUME NEW n \in Nodes, NEW f \in Faults, FailWrite(p, n, f) PROVE SerialInv(p)'
  <2>1. /\ Same(p) /\ UNCHANGED <<ops, store, applied>> /\ f \in Faults \cap {"lost", "late"}
        /\ proc[p].at = "writing" /\ proc'[p].resp = [proc[p].resp EXCEPT ![n] = "error"]
        /\ net' = IF f = "lost" THEN net \ {<<n, proc[p].op>>} ELSE net
    BY <1>1, <1>12, FailWriteStep
  <2>2. proc[p].resp \in [Nodes -> Responses] /\ net' = net \ {<<n, proc[p].op>>}
    BY <1>1, <2>1, Zenon DEF Types, Request
  <2>3. proc[p].op = Len(ops) /\ Under(p) /\ InOrder /\ Majorities(p)
    BY <2>1 DEF SerialInv
  <2>4. Under(p)'
    <3> SUFFICES ASSUME NEW m \in net' PROVE m[2] = Len(ops) /\ proc'[p].resp[m[1]] = "pending"
      BY <2>1 DEF Under
    <3>1. m \in net /\ m[2] = Len(ops) /\ proc[p].resp[m[1]] = "pending" /\ m = <<m[1], m[2]>>
          /\ m[1] \in Nodes
      BY <1>2, <2>2, <2>3 DEF Under
    <3>2. m[1] # n
      BY <2>2, <2>3, <3>1
    <3> QED
      BY <2>1, <2>2, <3>1, <3>2
  <2> QED
    BY <2>1, <2>3, <2>4 DEF SerialInv, InOrder, Majorities, Same
<1>13. ASSUME NEW n \in Nodes, NEW o \in 1..Len(ops), Deliver(n, o) \/ Refuse(n, o)
       PROVE  SerialInv(p)'
  <2>1. PICK a \in {"ok", "refused"} : proc' = Answer(o, n, a)
    BY <1>13 DEF Deliver, Refuse
  <2>2. a \in Responses
    BY DEF Responses
  <2>3. /\ Same(p) /\ \A m \in Nodes : proc'[p].resp[m] =
                        IF p \in Waiting(o, n) /\ m = n THEN a ELSE proc[p].resp[m]
    BY <1>1, <2>1, <2>2, AnswerStep
  <2>4. /\ ops' = ops /\ <<n, o>> \in net /\ net' = net \ {<<n, o>>}
        /\ \/ store' = store /\ applied' = applied
           \/ store' = [store EXCEPT ![n] = o] /\ applied' = applied \cup {<<n, o>>}
    BY <1>13 DEF Deliver, Refuse
  <2>5. proc[p].at = "writing" /\ proc[p].op = Len(ops) /\ Under(p) /\ InOrder /\ Majorities(p)
    BY <2>4 DEF SerialInv
  <2>6. o = Len(ops)
    BY <2>4, <2>5 DEF Under
  <2>7. Under(p)'
    <3> SUFFICES ASSUME NEW m \in net' PROVE m[2] = Len(ops) /\ proc'[p].resp[m[1]] = "pending"
      BY <2>4 DEF Under
    <3>1. m \in net /\ m[2] = Len(ops) /\ proc[p].resp[m[1]] = "pending" /\ m = <<m[1], m[2]>>
          /\ m[1] \in Nodes
      BY <1>2, <2>4, <2>5 DEF Under
    <3>2. m[1] # n
      BY <2>4, <2>6, <3>1
    <3> QED
      BY <2>3, <3>1, <3>2
  <2>8. InOrder'
    <3> SUFFICES ASSUME NEW m \in applied' PROVE m[2] <= store'[m[1]]
      BY DEF InOrder
    <3>1. store \in [Nodes -> Nat]
      BY <1>1 DEF Types
    <3>2. \A i \in applied : i[1] \in Nodes /\ i[2] \in 1..Len(ops) /\ i[2] <= store[i[1]]
      BY <1>2, <2>5 DEF InOrder
    <3>3. CASE store' = store /\ applied' = applied
      BY <3>2, <3>3
    <3>4. CASE store' = [store EXCEPT ![n] = o] /\ applied' = applied \cup {<<n, o>>}
      <4>1. m \in applied \/ m = <<n, o>>
        BY <3>4
      <4> QED
        BY <1>1, <2>6, <3>1, <3>2, <3>4, <4>1
    <3> QED
      BY <2>4, <3>3, <3>4
  <2> QED
    BY <2>3, <2>4, <2>5, <2>7, <2>8 DEF SerialInv, Majorities, Same
<1>14. ASSUME NEW c \in Coords, Restart(c) PROVE FALSE
  BY <1>14 DEF Restart, RestartsOK
<1>15. ASSUME Done \/ UNCHANGED vars PROVE SerialInv(p)'
  BY <1>15 DEF Done, vars, SerialInv, Under, Reads, InOrder, Majorities
<1>16. ASSUME Next PROVE SerialInv(p)'
  BY <1>4, <1>5, <1>6, <1>7, <1>8, <1>9, <1>10, <1>11, <1>12, <1>13, <1>14, <1>15, <1>16, Zenon
     DEF Next
<1> QED
  BY <1>15, <1>16, Zenon

\* Among majorities: replicas enough for the level are enough for a quorum.
LEMMA EnoughIsQuorum ==
  ASSUME CoordinatorAssumption, NEW A \in SUBSET Nodes,
         \/ 2 * Cardinality(A) > Cardinality(Nodes)
         \/ Cardinality(A) = Cardinality(Nodes)
  PROVE  IsQuorumReached(Cardinality(A), Cardinality(Nodes), "quorum")
<1>1. /\ Cardinality(Nodes) \in Nat /\ Cardinality(Nodes) # 0 /\ Cardinality(A) \in Nat
  BY FS_Subset, FS_CardinalityType, FS_EmptySet DEF CoordinatorAssumption
<1> QED
  BY <1>1 DEF IsQuorumReached, GetRequiredReplicas, CalculateQuorum

\* The replicas that applied an answered write meet those that answered the read.
LEMMA FreshWhenSerial ==
  ASSUME CoordinatorAssumption, NEW p, Procs = {p}, NEW c, Coords = {c},
         BaseInv, SerialInv(p), TimesInv, AckedOnQuorum, AnswerIsMaximal
  PROVE  QuorumReadFresh
<1> SUFFICES ASSUME proc[p].at = "read", NEW o \in proc[p].must
             PROVE  Compare(VC(proc[p].op), VC(o)) \in {"After", "Identical"}
  BY DEF QuorumReadFresh
<1> DEFINE v == proc[p].op
           On == {n \in Nodes : <<n, o>> \in applied}
<1>1. Types /\ Len(ops) \in Nat /\ DOMAIN ops = 1..Len(ops) /\ p \in Procs
  BY OpsIs DEF BaseInv
<1>2. /\ o \in acked /\ o \in 1..Len(ops) /\ v \in 1..Len(ops) /\ Quorate(p) /\ ValuesOK(p)
  BY <1>1 DEF BaseInv, RequestOK, TypeOK
<1>3. proc[p].level \in {"quorum", "all"} /\ ops[o].level \in {"quorum", "all"}
  <2>1. proc[p].level \in AllLevels /\ ops[o].level \in AllLevels
    BY <1>1, <1>2, OpsIs, Zenon DEF Types, Request, Write
  <2> QED
    BY <1>1, <1>2, <2>1 DEF SerialInv, Majorities, AllLevels
<1>4. IsQuorumReached(Cardinality(On), Cardinality(Nodes), "quorum")
  <2>1. \/ 2 * Cardinality(On) > Cardinality(Nodes)
        \/ Cardinality(On) = Cardinality(Nodes)
    BY <1>2, <1>3 DEF AckedOnQuorum
  <2>2. On \in SUBSET Nodes
    OBVIOUS
  <2> HIDE DEF On
  <2> QED
    BY <2>1, <2>2, EnoughIsQuorum
<1>5. IsQuorumReached(Cardinality(Successes(p)), Cardinality(Nodes), "quorum")
  <2>1. Successes(p) \in SUBSET Nodes
    BY DEF Successes
  <2>2. /\ Cardinality(Nodes) \in Nat /\ Cardinality(Successes(p)) \in Nat
        /\ Cardinality(Successes(p)) <= Cardinality(Nodes)
    BY <2>1, FS_Subset, FS_CardinalityType DEF CoordinatorAssumption
  <2>3. CASE proc[p].level = "quorum"
    BY <1>2, <2>3 DEF Quorate
  <2>4. CASE proc[p].level = "all"
    <3>1. Cardinality(Successes(p)) = Cardinality(Nodes)
      BY <1>2, <2>2, <2>4 DEF Quorate, IsQuorumReached, GetRequiredReplicas
    <3> QED
      BY <2>1, <3>1, EnoughIsQuorum
  <2> QED
    BY <1>3, <2>3, <2>4
<1>6. PICK n \in Nodes : n \in On /\ n \in Successes(p)
  <2>1. IsFiniteSet(Nodes) /\ On \in SUBSET Nodes /\ Successes(p) \in SUBSET Nodes
    BY DEF CoordinatorAssumption, Successes
  <2> HIDE DEF On
  <2>2. On \cap Successes(p) # {}
    BY <1>4, <1>5, <2>1, QuorumsIntersect
  <2> QED
    BY <2>1, <2>2
<1> DEFINE w == proc[p].val[n]
<1>7. w = store[n] /\ o <= w
  <2>1. proc[p].resp[n] = "ok" /\ <<n, o>> \in applied
    BY <1>6 DEF Successes
  <2>2. Reads(p) /\ InOrder
    BY DEF SerialInv
  <2> QED
    BY <2>1, <2>2 DEF Reads, InOrder
<1>8. w \in 1..Len(ops)
  <2>1. store[n] = 0 \/ <<n, store[n]>> \in applied
    BY DEF BaseInv, TypeOK
  <2>2. applied \subseteq Nodes \X (1..Len(ops))
    BY <1>1 DEF BaseInv, TypeOK
  <2> QED
    BY <1>2, <1>7, <2>1, <2>2
<1> HIDE DEF w, v, On
<1>9. Compare(ops[w].vc, ops[v].vc) # "After"
  <2>1. Compare(VC(w), VC(v)) # "After"
    BY <1>1, <1>6 DEF AnswerIsMaximal, w, v
  <2> QED
    BY <1>1, <1>2, <1>8, <2>1 DEF VC
<1>10. w <= v
  BY <1>1, <1>2, <1>8, <1>9, OneCoordinatorOrders
<1>11. CASE v = o
  <2>1. IsClock(VC(o))
    BY <1>1, <1>2, ClockEntries DEF VC
  <2>2. \A x : At(VC(o), x) \in Nat
    BY <2>1, AtIsNat
  <2>3. Compare(VC(o), VC(o)) = "Identical"
    BY <2>2 DEF Compare
  <2> QED
    BY <1>11, <2>3 DEF v
<1>12. CASE v # o
  <2>1. o < v
    BY <1>1, <1>2, <1>7, <1>8, <1>10, <1>12
  <2>2. Compare(ops[v].vc, ops[o].vc) = "After"
    BY <1>2, <2>1, OneCoordinatorOrders
  <2> QED
    BY <1>1, <1>2, <2>2 DEF VC, v
<1> QED
  BY <1>11, <1>12

\* QuorumReadFresh for requests at quorum or all that follow one another on one
\* coordinator, with calls lost and refused: the two majorities share a replica, which
\* holds the write or a later one.
THEOREM SerialReadsAreFresh ==
  ASSUME CoordinatorAssumption, NEW p, Procs = {p}, NEW c, Coords = {c},
         "one" \notin Levels, "late" \notin Faults, MaxRestarts = 0
  PROVE  Spec => []QuorumReadFresh
<1>1. Init => SerialInv(p) /\ AckedOnQuorum /\ AnswerIsMaximal
  <2> SUFFICES ASSUME Init PROVE SerialInv(p) /\ AckedOnQuorum /\ AnswerIsMaximal
    OBVIOUS
  <2>1. proc[p].at = "idle" /\ proc[p].level = "quorum" /\ net = {} /\ applied = {} /\ acked = {}
        /\ DOMAIN ops = {}
    <3>1. proc[p] = Idle /\ net = {} /\ applied = {} /\ acked = {} /\ DOMAIN ops = {}
      BY DEF Init
    <3> QED
      BY <3>1, IdleIs, Zenon
  <2> QED
    BY <2>1 DEF SerialInv, InOrder, Majorities, AckedOnQuorum, AnswerIsMaximal
<1> DEFINE Always == BaseInv /\ TimesInv /\ RestartsOK
<1>2. Spec => []Always
  BY TimesAlways
<1>3. Always /\ SerialInv(p) /\ [Next]_vars => SerialInv(p)'
  BY SerialStep
<1>4. Always /\ AckedOnQuorum /\ [Next]_vars => AckedOnQuorum'
  BY AckedStep
<1>5. Always /\ AnswerIsMaximal /\ [Next]_vars => AnswerIsMaximal'
  BY MaximalStep
<1>6. Always /\ SerialInv(p) /\ AckedOnQuorum /\ AnswerIsMaximal => QuorumReadFresh
  BY FreshWhenSerial
<1> HIDE DEF Always
<1> QED
  BY <1>1, <1>2, <1>3, <1>4, <1>5, <1>6, PTL DEF Spec

==============================================================================
