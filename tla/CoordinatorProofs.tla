-------------------------- MODULE CoordinatorProofs --------------------------
(***************************************************************************)
(* Facts about vector clocks and quorums, for clocks and replica sets of   *)
(* any size, and what they give the quorum writes and reads of             *)
(* Coordinator: for any number of coordinators, requests and replicas, and *)
(* whichever calls fail, unless a theorem says which may not.              *)
(***************************************************************************)
EXTENDS Coordinator, FiniteSetTheorems, TLAPS

\* A clock: logical timestamps, which IncrementFrom starts at 1.
IsClock(vc) == \E D : vc \in [D -> Nat]

LEMMA AtIsNat == ASSUME NEW vc, IsClock(vc), NEW n PROVE At(vc, n) \in Nat
  BY DEF IsClock, At

\* The clock that VectorClockService.IncrementFrom gives to a write comes after the
\* clock of the version that the write overwrites, and the local timestamp advances:
\* a replica that has the overwritten version takes the new one, whatever the
\* coordinator's local timestamp was.
THEOREM IncrementFromIsAfter ==
  ASSUME NEW existing, IsClock(existing), NEW last \in Nat, NEW id
  PROVE  LET r == IncrementFrom(existing, last, id)
         IN  Compare(r.vc, existing) = "After" /\ r.local > last
<1> DEFINE ts == IF At(existing, id) >= last + 1 THEN At(existing, id) + 1 ELSE last + 1
           vc == [n \in DOMAIN existing \cup {id} |-> IF n = id THEN ts ELSE existing[n]]
<1>1. IncrementFrom(existing, last, id) = [local |-> ts, vc |-> vc]
  BY DEF IncrementFrom
<1>2. At(existing, id) \in Nat
  BY AtIsNat
<1>3. ts \in Nat /\ ts > At(existing, id) /\ ts > last
  BY <1>2
<1> HIDE DEF ts
<1>4. DOMAIN vc = DOMAIN existing \cup {id} /\ At(vc, id) = ts
  BY DEF At
<1>5. \A n \in DOMAIN vc : n # id => At(vc, n) = At(existing, n)
  BY DEF At
<1> HIDE DEF vc
<1> DEFINE le == \A n \in DOMAIN vc \cup DOMAIN existing : At(vc, n) <= At(existing, n)
           ge == \A n \in DOMAIN vc \cup DOMAIN existing : At(vc, n) >= At(existing, n)
<1>6. ~le
  BY <1>2, <1>3, <1>4
<1>7. ge
  <2> SUFFICES ASSUME NEW n \in DOMAIN vc PROVE At(vc, n) >= At(existing, n)
    BY <1>4
  <2>1. At(existing, n) \in Nat
    BY AtIsNat
  <2>. QED
    BY <1>2, <1>3, <1>4, <1>5, <2>1
<1>8. Compare(vc, existing) = "After"
  BY <1>6, <1>7 DEF Compare
<1>. QED
  BY <1>1, <1>3, <1>8

\* Two sets of replicas that each satisfy the consistency level quorum have a
\* replica in common, however many replicas there are: a quorum read meets every
\* quorum write of the same replica set.
THEOREM QuorumsIntersect ==
  ASSUME NEW R, IsFiniteSet(R), NEW A \in SUBSET R, NEW B \in SUBSET R,
         IsQuorumReached(Cardinality(A), Cardinality(R), "quorum"),
         IsQuorumReached(Cardinality(B), Cardinality(R), "quorum")
  PROVE  A \cap B # {}
<1> DEFINE total == Cardinality(R)
<1>1. total \in Nat /\ IsFiniteSet(A) /\ IsFiniteSet(B)
  BY FS_CardinalityType, FS_Subset
<1>2. Cardinality(A) \in Nat /\ Cardinality(B) \in Nat
  BY <1>1, FS_CardinalityType
<1>3. Cardinality(A) >= CalculateQuorum(total) /\ Cardinality(B) >= CalculateQuorum(total)
  BY DEF IsQuorumReached, GetRequiredReplicas
<1>4. 2 * CalculateQuorum(total) > total /\ CalculateQuorum(total) \in Nat
  BY <1>1 DEF CalculateQuorum
<1> HIDE DEF total
<1>5. Cardinality(A) + Cardinality(B) > total
  BY <1>1, <1>2, <1>3, <1>4
<1>6. IsFiniteSet(A \cup B) /\ Cardinality(A \cup B) <= total
  BY <1>1, FS_Union, FS_Subset DEF total
<1>7. ASSUME A \cap B = {} PROVE FALSE
  <2>1. Cardinality(A \cap B) = 0
    BY <1>7, FS_EmptySet
  <2>2. Cardinality(A \cup B) = Cardinality(A) + Cardinality(B) - Cardinality(A \cap B)
    BY <1>1, FS_Union
  <2>. QED
    BY <1>1, <1>2, <1>5, <1>6, <2>1, <2>2
<1>. QED
  BY <1>7

\* Where one clock is greater, and where the other is.
Greater(a, b) == \E n \in DOMAIN a \cup DOMAIN b : At(a, n) > At(b, n)

LEMMA CompareByGreater ==
  ASSUME NEW a, IsClock(a), NEW b, IsClock(b)
  PROVE  /\ (Compare(a, b) = "After") <=> (Greater(a, b) /\ ~Greater(b, a))
         /\ (Compare(a, b) = "Before") <=> (Greater(b, a) /\ ~Greater(a, b))
<1>1. \A n : At(a, n) \in Nat /\ At(b, n) \in Nat
  BY AtIsNat
<1> DEFINE le == \A n \in DOMAIN a \cup DOMAIN b : At(a, n) <= At(b, n)
           ge == \A n \in DOMAIN a \cup DOMAIN b : At(a, n) >= At(b, n)
<1>2. le <=> ~Greater(a, b)
  BY <1>1 DEF Greater
<1>3. ge <=> ~Greater(b, a)
  BY <1>1 DEF Greater
<1>4. Compare(a, b) = IF le /\ ge THEN "Identical" ELSE IF le THEN "Before"
                      ELSE IF ge THEN "After" ELSE "Concurrent"
  BY DEF Compare
<1> HIDE DEF le, ge
<1>. QED
  BY <1>2, <1>3, <1>4

\* The comparison that CompactionService.compareVectorClocks makes for itself orders
\* two clocks exactly as VectorClockOps.Compare of the coordinator does.
THEOREM CompactionCompareAgrees ==
  ASSUME NEW a, IsClock(a), NEW b, IsClock(b)
  PROVE  /\ (CompactionCompare(a, b) = 1) <=> (Compare(a, b) = "After")
         /\ (CompactionCompare(a, b) = -1) <=> (Compare(a, b) = "Before")
<1>1. \A n : At(a, n) \in Nat /\ At(b, n) \in Nat
  BY AtIsNat
<1> DEFINE g1 == \E n \in DOMAIN a : a[n] > At(b, n)
           g2 == \/ \E n \in DOMAIN a : a[n] < At(b, n)
                 \/ \E n \in DOMAIN b \ DOMAIN a : b[n] > 0
<1>2. (\A n \in DOMAIN a : At(a, n) = a[n]) /\ (\A n : n \notin DOMAIN a => At(a, n) = 0)
  BY DEF At
<1>3. \A n \in DOMAIN b : At(b, n) = b[n]
  BY DEF At
<1>4. g1 <=> Greater(a, b)
  BY <1>1, <1>2 DEF Greater
<1>5. g2 <=> Greater(b, a)
  BY <1>1, <1>2, <1>3 DEF Greater
<1>6. CompactionCompare(a, b) = IF g1 /\ ~g2 THEN 1 ELSE IF g2 /\ ~g1 THEN -1 ELSE 0
  BY DEF CompactionCompare
<1> HIDE DEF g1, g2
<1>. QED
  BY <1>4, <1>5, <1>6, CompareByGreater

\* The storage node's VectorClockService.Compare does so too when no entry is 0, as
\* in the clocks that coordinators give out.
THEOREM NodeCompareAgrees ==
  ASSUME NEW a, IsClock(a), NEW b, IsClock(b), \A n \in DOMAIN a : a[n] > 0
  PROVE  /\ (NodeCompare(a, b) = 1) <=> (Compare(a, b) = "After")
         /\ (NodeCompare(a, b) = -1) <=> (Compare(a, b) = "Before")
<1>1. \A n : At(a, n) \in Nat /\ At(b, n) \in Nat
  BY AtIsNat
<1> DEFINE g1 == \E n \in DOMAIN a : n \notin DOMAIN b \/ a[n] > At(b, n)
           g2 == \/ \E n \in DOMAIN a \cap DOMAIN b : a[n] < b[n]
                 \/ \E n \in DOMAIN b \ DOMAIN a : b[n] > 0
<1>2. (\A n \in DOMAIN a : At(a, n) = a[n]) /\ (\A n : n \notin DOMAIN a => At(a, n) = 0)
  BY DEF At
<1>3. (\A n \in DOMAIN b : At(b, n) = b[n]) /\ (\A n : n \notin DOMAIN b => At(b, n) = 0)
  BY DEF At
<1>4. g1 <=> Greater(a, b)
  BY <1>1, <1>2, <1>3 DEF Greater
<1>5. g2 <=> Greater(b, a)
  BY <1>1, <1>2, <1>3 DEF Greater
<1>6. NodeCompare(a, b) = IF g1 /\ ~g2 THEN 1 ELSE IF ~g1 /\ g2 THEN -1 ELSE 0
  BY DEF NodeCompare
<1> HIDE DEF g1, g2
<1>. QED
  BY <1>4, <1>5, <1>6, CompareByGreater

------------------------------------------------------------------------------
\* DetectConflicts goes through the responses one after another.

\* A set of naturals that is not empty has a least element.
LEMMA LeastOf ==
  ASSUME NEW T, T \subseteq Nat, T # {}
  PROVE  \E i \in T : \A j \in T : i <= j
<1> DEFINE R == OpToRel(<, Nat)
<1>1. IsWellFoundedOn(R, Nat)
  BY NatLessThanWellFounded, Zenon
<1>2. \A i, j \in Nat : j < i => <<j, i>> \in R
  BY DEF OpToRel
<1> HIDE DEF R
<1>3. \E i \in T : \A j \in T : ~(<<j, i>> \in R)
  BY <1>1, WFMin, Zenon
<1>4. PICK i \in T : \A j \in T : ~(<<j, i>> \in R)
  BY <1>3
<1>5. ASSUME NEW j \in T PROVE i <= j
  <2>1. i \in Nat /\ j \in Nat /\ ~(j < i)
    BY <1>2, <1>4, Zenon
  <2> QED
    BY <2>1
<1> QED
  BY <1>5

First == [latest |-> 0, conflict |-> FALSE]
Folds(f, p, order, n) ==
  /\ f[0] = First
  /\ \A i \in 1..n : f[i] = KeepLatest(f[i - 1], proc[p].val[order[i]])

\* The recursive function of DetectConflicts exists: of the numbers of responses for
\* which it did not there would be a least one.
LEMMA FoldSteps ==
  ASSUME NEW p, NEW n \in Nat, n = Cardinality(Successes(p)), NEW order
  PROVE  \E f : Folds(f, p, order, n) /\ f[n] = DetectConflicts(p, order)
<1> DEFINE Step(i, g) == IF i = 0 THEN First ELSE KeepLatest(g[i - 1], proc[p].val[order[i]])
           Solves(g, m) == g = [i \in 0..m |-> Step(i, g)]
           T == {m \in 0..n : ~\E g : Solves(g, m)}
           keep == CHOOSE g : Solves(g, n)
<1>1. DetectConflicts(p, order) = keep[n]
  BY DEF DetectConflicts, First
<1>2. T = {}
  <2>1. SUFFICES ASSUME T # {} PROVE FALSE
    BY Zenon
  <2>2. T \subseteq Nat /\ T \subseteq 0..n
    OBVIOUS
  <2>3. \A m \in 0..n : m \notin T <=> \E g : Solves(g, m)
    BY Zenon
  <2> HIDE DEF T
  <2>4. PICK m \in T : \A j \in T : m <= j
    BY <2>1, <2>2, LeastOf, Zenon
  <2>5. m # 0
    <3>1. Solves([i \in 0..0 |-> First], 0)
      OBVIOUS
    <3> QED
      BY <2>2, <2>3, <2>4, <3>1, Zenon
  <2>6. m - 1 \in 0..n /\ m - 1 \notin T /\ m \in 0..n
    BY <2>2, <2>4, <2>5
  <2>7. PICK g : Solves(g, m - 1)
    BY <2>3, <2>6, Zenon
  <2> DEFINE h == [i \in 0..m |-> IF i = m THEN Step(m, g) ELSE g[i]]
  <2>8. ASSUME NEW i \in 0..m PROVE h[i] = Step(i, h)
    <3>1. i = 0 \/ (i - 1 \in 0..m /\ i - 1 # m)
      BY <2>6
    <3>2. i = 0 \/ h[i - 1] = g[i - 1]
      BY <3>1
    <3>3. Step(i, h) = Step(i, g)
      BY <3>2
    <3>4. CASE i = m
      BY <3>3, <3>4
    <3>5. CASE i # m
      <4>1. i \in 0..(m - 1)
        BY <2>6, <3>5
      <4>2. h[i] = g[i] /\ g[i] = Step(i, g)
        BY <2>7, <3>5, <4>1, Zenon
      <4> QED
        BY <3>3, <4>2
    <3> QED
      BY <3>4, <3>5
  <2>9. Solves(h, m)
    BY <2>8, Zenon
  <2> QED
    BY <2>3, <2>4, <2>6, <2>9, Zenon
<1>3. Solves(keep, n)
  <2>1. n \in 0..n
    OBVIOUS
  <2>2. \E g : Solves(g, n)
    <3>1. n \in T \/ \E g : Solves(g, n)
      BY <2>1, Zenon
    <3> QED
      BY <1>2, <3>1, Zenon
  <2> QED
    BY <2>2, Zenon
<1> HIDE DEF keep
<1>4. keep[0] = First
  BY <1>3
<1>5. ASSUME NEW i \in 1..n PROVE keep[i] = KeepLatest(keep[i - 1], proc[p].val[order[i]])
  BY <1>3
<1> QED
  BY <1>1, <1>4, <1>5 DEF Folds

\* In the order of clocks, what is after something is after all that came before it.
LEMMA AfterIsTransitive ==
  ASSUME NEW a, IsClock(a), NEW b, IsClock(b), NEW c, IsClock(c),
         Compare(a, b) = "After", Compare(b, c) = "After"
  PROVE  Compare(a, c) = "After"
<1>1. \A n : At(a, n) \in Nat /\ At(b, n) \in Nat /\ At(c, n) \in Nat
  BY AtIsNat
<1>2. Greater(a, b) /\ ~Greater(b, a) /\ Greater(b, c) /\ ~Greater(c, b)
  BY CompareByGreater
<1>3. \A n : (n \notin DOMAIN a => At(a, n) = 0) /\ (n \notin DOMAIN b => At(b, n) = 0)
             /\ (n \notin DOMAIN c => At(c, n) = 0)
  BY DEF At
<1>4. \A n : At(b, n) <= At(a, n) /\ At(c, n) <= At(b, n)
  BY <1>1, <1>2, <1>3 DEF Greater
<1>5. PICK n \in DOMAIN a \cup DOMAIN b : At(a, n) > At(b, n)
  BY <1>2 DEF Greater
<1>6. At(a, n) > At(c, n)
  BY <1>1, <1>4, <1>5
<1>7. Greater(a, c)
  BY <1>1, <1>3, <1>6 DEF Greater
<1>8. ~Greater(c, a)
  BY <1>1, <1>4 DEF Greater
<1> QED
  BY <1>7, <1>8, CompareByGreater

LEMMA NotAfterItself ==
  ASSUME NEW a, IsClock(a)
  PROVE  Compare(a, a) # "After"
<1>1. \A n : At(a, n) \in Nat
  BY AtIsNat
<1> QED
  BY <1>1, CompareByGreater DEF Greater

\* The version that is kept is one of the responses seen so far, and none of them is
\* after it.
LEMMA LatestIsMaximal ==
  ASSUME NEW p, NEW k \in Nat \ {0}, k = Cardinality(Successes(p)), NEW order,
         \A i \in 1..k : proc[p].val[order[i]] \in Nat \ {0},
         \A i \in 1..k : IsClock(VC(proc[p].val[order[i]]))
  PROVE  LET d == DetectConflicts(p, order)
         IN  /\ \E i \in 1..k : d.latest = proc[p].val[order[i]]
             /\ \A i \in 1..k : Compare(VC(proc[p].val[order[i]]), VC(d.latest)) # "After"
<1> DEFINE v(i) == proc[p].val[order[i]]
<1>1. PICK f : Folds(f, p, order, k) /\ f[k] = DetectConflicts(p, order)
  <2>1. k \in Nat
    OBVIOUS
  <2> QED
    BY <2>1, FoldSteps, Zenon
<1>2. /\ f[0] = First
      /\ \A i \in 1..k : f[i] = KeepLatest(f[i - 1], v(i))
  BY <1>1 DEF Folds
<1>3. \A i \in 1..k : v(i) \in Nat \ {0} /\ IsClock(VC(v(i)))
  OBVIOUS
<1> HIDE DEF v
<1> DEFINE P(i) == /\ f[i] \in [latest : Nat, conflict : BOOLEAN]
                   /\ \E j \in 1..i : f[i].latest = v(j)
                   /\ \A j \in 1..i : Compare(VC(v(j)), VC(f[i].latest)) # "After"
           T == {i \in 1..k : ~P(i)}
<1>4. P(1)
  <2>1. 1 \in 1..k /\ 1 - 1 = 0
    OBVIOUS
  <2>2. f[1] = KeepLatest(First, v(1))
    BY <1>2, <2>1
  <2>5. f[1] = [latest |-> v(1), conflict |-> FALSE]
    BY <2>2, Zenon DEF First, KeepLatest
  <2>3. v(1) \in Nat /\ 1 \in 1..1 /\ (\A j \in 1..1 : j = 1) /\ IsClock(VC(v(1)))
    BY <1>3
  <2>4. f[1] \in [latest : Nat, conflict : BOOLEAN] /\ f[1].latest = v(1)
    BY <2>3, <2>5
  <2> QED
    BY <2>3, <2>4, NotAfterItself
<1>5. ASSUME NEW i \in 2..k, P(i - 1) PROVE P(i)
  <2> DEFINE acc == f[i - 1]
  <2>1. /\ i \in 1..k /\ i - 1 \in 1..k /\ f[i] = KeepLatest(acc, v(i))
        /\ \A j \in 1..i : j = i \/ j \in 1..(i - 1)
        /\ i \in 1..i /\ \A j \in 1..(i - 1) : j \in 1..i /\ j \in 1..k
    BY <1>2
  <2>2. PICK m \in 1..(i - 1) : acc.latest = v(m)
    BY <1>5
  <2>3. /\ acc \in [latest : Nat, conflict : BOOLEAN] /\ acc.latest # 0
        /\ \A j \in 1..(i - 1) : Compare(VC(v(j)), VC(acc.latest)) # "After"
    BY <1>3, <1>5, <2>1, <2>2
  <2>4. IsClock(VC(acc.latest)) /\ IsClock(VC(v(i))) /\ v(i) \in Nat
        /\ \A j \in 1..(i - 1) : IsClock(VC(v(j)))
    BY <1>3, <2>1, <2>2
  <2> HIDE DEF acc
  <2>5. CASE Compare(VC(v(i)), VC(acc.latest)) = "After"
    <3>1. f[i] = [acc EXCEPT !.latest = v(i)]
      BY <2>1, <2>3, <2>5 DEF KeepLatest
    <3>2. f[i] \in [latest : Nat, conflict : BOOLEAN] /\ f[i].latest = v(i)
      BY <2>3, <2>4, <3>1
    <3>3. ASSUME NEW j \in 1..i PROVE Compare(VC(v(j)), VC(v(i))) # "After"
      <4>1. CASE j = i
        BY <2>4, <4>1, NotAfterItself
      <4>2. CASE j \in 1..(i - 1)
        BY <2>3, <2>4, <2>5, <4>2, AfterIsTransitive
      <4> QED
        BY <2>1, <4>1, <4>2
    <3> QED
      BY <2>1, <3>2, <3>3
  <2>6. CASE Compare(VC(v(i)), VC(acc.latest)) # "After"
    <3>1. f[i] \in [latest : Nat, conflict : BOOLEAN] /\ f[i].latest = acc.latest
      BY <2>1, <2>3, <2>6, Zenon DEF KeepLatest
    <3> QED
      BY <2>1, <2>2, <2>3, <2>6, <3>1
  <2> QED
    BY <2>5, <2>6
<1>6. T = {}
  <2>1. SUFFICES ASSUME T # {} PROVE FALSE
    BY Zenon
  <2>2. T \subseteq Nat /\ T \subseteq 1..k
    OBVIOUS
  <2>3. \A i \in 1..k : i \notin T <=> P(i)
    BY Zenon
  <2> HIDE DEF T, P
  <2>4. PICK i \in T : \A j \in T : i <= j
    BY <2>1, <2>2, LeastOf, Zenon
  <2>5. i \in 1..k /\ 1 \in 1..k
    BY <2>2, <2>4
  <2>6. i # 1
    BY <1>4, <2>3, <2>5, Zenon
  <2>7. i \in 2..k /\ i - 1 \in 1..k /\ ~(i <= i - 1)
    BY <2>5, <2>6
  <2> QED
    BY <1>5, <2>3, <2>4, <2>5, <2>7, Zenon
<1>7. P(k)
  BY <1>6
<1> QED
  BY <1>1, <1>7, Zenon DEF v

------------------------------------------------------------------------------
\* The types of the requests, of the clocks and of the writes.
Responses == {"none", "pending", "ok", "notfound", "refused", "error"}
AllLevels == {"one", "quorum", "all"}
Request ==
  [at : {"idle", "existing", "clock", "writing", "reading", "read"}, level : AllLevels,
   ikey : IKeys \cup {""}, op : Nat, base : Nat, resp : [Nodes -> Responses],
   val : [Nodes -> Nat], must : SUBSET Nat, dup : BOOLEAN]
Clock == UNION {[D -> Nat] : D \in SUBSET Coords}
Write == [vc : Clock, base : Nat, coord : Coords, level : AllLevels,
          after : SUBSET Nat, dup : BOOLEAN]
Types ==
  /\ ops \in Seq(Write) /\ proc \in [Procs -> Request]
  /\ store \in [Nodes -> Nat] /\ local \in [Coords -> Nat] /\ acked \subseteq Nat

\* Only the request of p changes.
Only(p) == proc' \in [Procs -> Request] /\ \A q \in Procs \ {p} : proc'[q] = proc[q]

\* A goroutine between requests.
LEMMA IdleIs ==
  /\ Idle \in Request /\ Idle.at = "idle" /\ Idle.must = {} /\ Idle.base = 0
  /\ Idle.ikey = "" /\ Idle.level = "quorum" /\ \A n \in Nodes : Idle.resp[n] = "none" /\ Idle.val[n] = 0
BY DEF Idle, Request, Responses, AllLevels

LEMMA InIsBoolean == ASSUME NEW x, NEW S PROVE (x \in S) \in BOOLEAN
OBVIOUS

\* What each action does to the request that takes it, and what it leaves alone.
LEMMA BeginWriteStep ==
  ASSUME CoordinatorAssumption, Types, NEW p \in Procs, NEW l \in Levels, NEW k \in IKeys \cup {""},
         BeginWrite(p, l, k)
  PROVE  /\ Only(p) /\ UNCHANGED <<ops, store, net, applied, local, idem, acked, hints>>
         /\ proc'[p].at = "existing" /\ proc'[p].base = 0 /\ proc'[p].must = acked
         /\ proc'[p].level = l /\ \A n \in Nodes : proc'[p].val[n] = 0
<1> DEFINE again == k \in idem
           r == [Idle EXCEPT !.at = "existing", !.level = l, !.ikey = k, !.must = acked,
                             !.dup = again]
<1>1. proc' = [proc EXCEPT ![p] = r]
  BY Zenon DEF BeginWrite, IdempotencyGet, RedisGetType
<1>2. l \in AllLevels /\ acked \in SUBSET Nat
  BY Zenon DEF CoordinatorAssumption, AllLevels, Types
<1>3. r \in Request /\ r.at = "existing" /\ r.base = 0 /\ r.must = acked
      /\ r.level = l /\ \A n \in Nodes : r.val[n] = 0
  <2>1. [Idle EXCEPT !.at = "existing", !.level = l, !.ikey = k, !.must = acked] \in Request
    BY <1>2, IdleIs, Zenon DEF Request
  <2>3. ASSUME NEW x \in Request, NEW b \in BOOLEAN PROVE [x EXCEPT !.dup = b] \in Request
    BY Zenon DEF Request
  <2>4. again \in BOOLEAN
    BY InIsBoolean, Zenon
  <2>2. r \in Request
    <3> HIDE DEF again
    <3>1. r = [[Idle EXCEPT !.at = "existing", !.level = l, !.ikey = k, !.must = acked]
                 EXCEPT !.dup = again]
      OBVIOUS
    <3> QED
      BY <2>1, <2>3, <2>4, <3>1, Zenon
  <2> QED
    BY <2>2, IdleIs, Zenon DEF Request
<1> HIDE DEF r
<1> QED
  BY <1>1, <1>3, Zenon DEF BeginWrite, Only, Types

LEMMA ReadExistingValueStep ==
  ASSUME Types, NEW p \in Procs, ReadExistingValue(p)
  PROVE  /\ Only(p) /\ UNCHANGED <<ops, store, net, applied, local, idem, acked, hints>>
         /\ proc'[p].at = "clock" /\ proc'[p].base \in 0..Len(ops)
         /\ proc'[p].must = proc[p].must /\ proc'[p].val = proc[p].val
         /\ proc'[p].level = proc[p].level
<1>1. PICK v \in 0..Len(ops) : proc' = [proc EXCEPT ![p].at = "clock", ![p].base = v]
  BY Zenon DEF ReadExistingValue
<1>2. v \in Nat /\ proc[p] \in Request
  BY DEF Types
<1> DEFINE r == [proc[p] EXCEPT !.at = "clock", !.base = v]
<1>3. proc' = [proc EXCEPT ![p] = r]
  BY <1>1, Zenon
<1>4. r \in Request /\ r.at = "clock" /\ r.base = v /\ r.must = proc[p].must /\ r.val = proc[p].val
      /\ r.level = proc[p].level
  BY <1>2, Zenon DEF Request
<1> HIDE DEF r
<1> QED
  BY <1>1, <1>3, <1>4, Zenon DEF ReadExistingValue, Only, Types

\* The writes on record.
LEMMA OpsIs ==
  ASSUME Types
  PROVE  Len(ops) \in Nat /\ DOMAIN ops = 1..Len(ops) /\ \A o \in 1..Len(ops) : ops[o] \in Write
BY DEF Types

\* The clock a write is given: its coordinator's entry is new and exceeds the local
\* timestamp, the others are those of the version it read.
LEMMA TakeClockIs ==
  ASSUME CoordinatorAssumption, Types, NEW p \in Procs, proc[p].base \in 0..Len(ops)
  PROVE  LET c == Home[p]
             old == IF proc[p].base = 0 THEN EmptyClock ELSE ops[proc[p].base].vc
             new == TakeClock(p)
         IN  /\ c \in Coords /\ new.vc \in Clock /\ new.local \in Nat /\ new.local > local[c]
             /\ DOMAIN new.vc = DOMAIN old \cup {c} /\ new.vc[c] = new.local
             /\ \A n \in DOMAIN old : n # c => new.vc[n] = old[n]
<1> DEFINE c == Home[p]
           old == IF proc[p].base = 0 THEN EmptyClock ELSE ops[proc[p].base].vc
           ts == IF proc[p].base # 0 /\ At(old, c) >= local[c] + 1 THEN At(old, c) + 1
                 ELSE local[c] + 1
           vc == [n \in DOMAIN old \cup {c} |-> IF n = c THEN ts ELSE old[n]]
<1>1. c \in Coords /\ local[c] \in Nat
  BY DEF CoordinatorAssumption, Types
<1>2. old \in Clock
  <2>1. CASE proc[p].base = 0
    <3>1. EmptyClock \in [{} -> Nat] /\ {} \in SUBSET Coords
      BY DEF EmptyClock
    <3> QED
      BY <2>1, <3>1 DEF Clock
  <2>2. CASE proc[p].base # 0
    <3>1. ops[proc[p].base] \in Write
      BY <2>2, OpsIs
    <3> QED
      BY <2>2, <3>1 DEF Write
  <2> QED
    BY <2>1, <2>2
<1>3. PICK D \in SUBSET Coords : old \in [D -> Nat]
  BY <1>2, Zenon DEF Clock
<1> HIDE DEF old
<1>4. At(old, c) \in Nat
  BY <1>3 DEF At
<1>5. ts \in Nat /\ ts > local[c]
  BY <1>1, <1>4
<1> HIDE DEF ts
<1>6. vc \in [D \cup {c} -> Nat] /\ D \cup {c} \in SUBSET Coords /\ DOMAIN vc = DOMAIN old \cup {c}
      /\ vc[c] = ts /\ \A n \in DOMAIN old : n # c => vc[n] = old[n]
  BY <1>1, <1>3, <1>5
<1>7. vc \in Clock
  BY <1>6, Zenon DEF Clock
<1>8. TakeClock(p) = [local |-> ts, vc |-> vc]
  <2>1. CASE proc[p].base = 0
    <3>1. DOMAIN old = {} /\ ts = local[c] + 1
      BY <2>1 DEF old, ts, EmptyClock
    <3>2. vc = [n \in {c} |-> local[c] + 1]
      BY <3>1
    <3>3. TakeClock(p) = [local |-> local[c] + 1, vc |-> [n \in {c} |-> local[c] + 1]]
      BY <2>1 DEF TakeClock, Increment
    <3> QED
      BY <3>1, <3>2, <3>3
  <2>2. CASE proc[p].base # 0
    <3>1. TakeClock(p) = IncrementFrom(old, local[c], c)
      BY <2>2 DEF TakeClock, VC, old
    <3>2. ts = IF At(old, c) >= local[c] + 1 THEN At(old, c) + 1 ELSE local[c] + 1
      BY <2>2 DEF ts
    <3> QED
      BY <3>1, <3>2 DEF IncrementFrom
  <2> QED
    BY <2>1, <2>2
<1> HIDE DEF vc
<1>9. TakeClock(p).vc = vc /\ TakeClock(p).local = ts
  BY <1>8
<1> QED
  BY <1>1, <1>5, <1>6, <1>7, <1>9, Zenon DEF old

\* A call of p is answered: nothing else of the request changes.
Same(p) ==
  /\ proc'[p].at = proc[p].at /\ proc'[p].level = proc[p].level /\ proc'[p].op = proc[p].op
  /\ proc'[p].base = proc[p].base /\ proc'[p].must = proc[p].must

LEMMA StartWritesStep ==
  ASSUME CoordinatorAssumption, Types, NEW p \in Procs, proc[p].base \in 0..Len(ops),
         StartWrites(p)
  PROVE  LET o == Len(ops) + 1
         IN  /\ Only(p) /\ UNCHANGED <<store, applied, idem, acked, hints>>
             /\ proc[p].at = "clock" /\ proc'[p].at = "writing" /\ proc'[p].op = o
             /\ proc'[p].level = proc[p].level /\ proc'[p].base = proc[p].base
             /\ proc'[p].must = proc[p].must /\ proc'[p].val = proc[p].val
             /\ \A n \in Nodes : proc'[p].resp[n] = "pending"
             /\ ops' \in Seq(Write) /\ Len(ops') = o /\ DOMAIN ops' = 1..o
             /\ \A i \in 1..Len(ops) : ops'[i] = ops[i]
             /\ ops'[o].vc = TakeClock(p).vc /\ ops'[o].base = proc[p].base
             /\ ops'[o].coord = Home[p] /\ ops'[o].level = proc[p].level
             /\ ops'[o].after = proc[p].must
             /\ local' = [local EXCEPT ![Home[p]] = TakeClock(p).local]
             /\ net' = net \cup (Nodes \X {o})
<1> DEFINE o == Len(ops) + 1
           w == [vc |-> TakeClock(p).vc, base |-> proc[p].base, coord |-> Home[p],
                 level |-> proc[p].level, after |-> proc[p].must, dup |-> proc[p].dup]
           r == [proc[p] EXCEPT !.at = "writing", !.op = o, !.resp = Pending]
<1>1. /\ proc' = [proc EXCEPT ![p] = r] /\ ops' = Append(ops, w)
      /\ UNCHANGED <<store, applied, idem, acked, hints>> /\ proc[p].at = "clock"
      /\ local' = [local EXCEPT ![Home[p]] = TakeClock(p).local]
      /\ net' = net \cup (Nodes \X {o})
  BY Zenon DEF StartWrites
<1>2. proc[p] \in Request /\ ops \in Seq(Write) /\ Len(ops) \in Nat /\ proc \in [Procs -> Request]
  BY DEF Types
<1>3. w \in Write
  <2>1. TakeClock(p).vc \in Clock /\ Home[p] \in Coords
    BY TakeClockIs
  <2>2. /\ proc[p].base \in Nat /\ proc[p].level \in AllLevels
        /\ proc[p].must \in SUBSET Nat /\ proc[p].dup \in BOOLEAN
    BY <1>2, Zenon DEF Request
  <2> QED
    BY <2>1, <2>2, Zenon DEF Write
<1>4. r \in Request /\ r.at = "writing" /\ r.op = o /\ r.level = proc[p].level
      /\ r.base = proc[p].base /\ r.must = proc[p].must /\ r.val = proc[p].val
      /\ \A n \in Nodes : r.resp[n] = "pending"
  <2>1. Pending \in [Nodes -> Responses] /\ o \in Nat
    BY <1>2 DEF Pending, Responses
  <2> QED
    BY <1>2, <2>1, Zenon DEF Request, Pending
<1>5. /\ ops' \in Seq(Write) /\ Len(ops') = o /\ DOMAIN ops' = 1..o
      /\ \A i \in 1..Len(ops) : ops'[i] = ops[i]
      /\ ops'[o] = w
  <2> HIDE DEF w
  <2> QED
    BY <1>1, <1>2, <1>3
<1>6. Only(p) /\ proc'[p] = r
  <2> HIDE DEF r
  <2> QED
    BY <1>1, <1>2, <1>4 DEF Only
<1>7. w.vc = TakeClock(p).vc /\ w.base = proc[p].base /\ w.coord = Home[p]
      /\ w.level = proc[p].level /\ w.after = proc[p].must
  OBVIOUS
<1> HIDE DEF w, r
<1> QED
  BY <1>1, <1>4, <1>5, <1>6, <1>7

LEMMA FinishWriteStep ==
  ASSUME Types, NEW p \in Procs, FinishWrite(p)
  PROVE  /\ Only(p) /\ UNCHANGED <<ops, store, net, applied, local, hints>>
         /\ proc[p].at = "writing" /\ AnsweredAll(p) /\ proc'[p] = Idle
         /\ idem' \subseteq idem \cup ({proc[p].ikey} \ {""})
         /\ \/ acked' = acked
            \/ /\ acked' = acked \cup {proc[p].op}
               /\ IsQuorumReached(Cardinality(Successes(p)), Cardinality(Nodes), proc[p].level)
<1>1. proc' = [proc EXCEPT ![p] = Idle] /\ proc \in [Procs -> Request]
  BY Zenon DEF FinishWrite, Types
<1>2. Only(p) /\ proc'[p] = Idle
  BY <1>1, IdleIs, Zenon DEF Only
<1> QED
  BY <1>2, Zenon DEF FinishWrite

LEMMA BeginReadStep ==
  ASSUME CoordinatorAssumption, Types, NEW p \in Procs, NEW l \in Levels, BeginRead(p, l)
  PROVE  /\ Only(p) /\ UNCHANGED <<ops, store, net, applied, local, idem, acked, hints>>
         /\ proc[p].at = "idle" /\ proc'[p].at = "reading" /\ proc'[p].base = 0
         /\ proc'[p].must = acked /\ proc'[p].level = l
         /\ \A n \in Nodes : proc'[p].resp[n] = "pending" /\ proc'[p].val[n] = 0
<1> DEFINE r == [Idle EXCEPT !.at = "reading", !.level = l, !.resp = Pending, !.must = acked]
<1>1. proc' = [proc EXCEPT ![p] = r] /\ proc \in [Procs -> Request]
  BY DEF BeginRead, Types
<1>2. l \in AllLevels /\ acked \in SUBSET Nat /\ Pending \in [Nodes -> Responses]
  BY DEF CoordinatorAssumption, AllLevels, Types, Pending, Responses
<1>3. r \in Request
  BY <1>2, IdleIs, Zenon DEF Request
<1>4. r.at = "reading" /\ r.base = 0 /\ r.must = acked /\ r.level = l
      /\ \A n \in Nodes : r.resp[n] = "pending" /\ r.val[n] = 0
  BY <1>2, IdleIs, Zenon DEF Request, Pending
<1> HIDE DEF r
<1> QED
  BY <1>1, <1>3, <1>4, Zenon DEF BeginRead, Only

\* A replica answers, or a call fails.
LEMMA CallAnswered ==
  ASSUME Types, NEW p \in Procs, NEW R \in [Nodes -> Responses], NEW V \in [Nodes -> Nat],
         proc' = [proc EXCEPT ![p] = [proc[p] EXCEPT !.resp = R, !.val = V]]
  PROVE  Only(p) /\ Same(p) /\ proc'[p].resp = R /\ proc'[p].val = V
<1>1. proc[p] \in Request /\ proc \in [Procs -> Request]
  BY DEF Types
<1> DEFINE r == [proc[p] EXCEPT !.resp = R, !.val = V]
<1>2. /\ r \in Request /\ r.at = proc[p].at /\ r.level = proc[p].level /\ r.op = proc[p].op
      /\ r.base = proc[p].base /\ r.must = proc[p].must /\ r.resp = R /\ r.val = V
  BY <1>1, Zenon DEF Request
<1>3. proc' = [proc EXCEPT ![p] = r]
  OBVIOUS
<1> HIDE DEF r
<1> QED
  BY <1>1, <1>2, <1>3 DEF Only, Same

LEMMA CallFailed ==
  ASSUME Types, NEW p \in Procs, NEW n \in Nodes, proc' = [proc EXCEPT ![p].resp[n] = "error"]
  PROVE  /\ Only(p) /\ Same(p) /\ proc'[p].resp = [proc[p].resp EXCEPT ![n] = "error"]
         /\ proc'[p].val = proc[p].val
<1> DEFINE R == [proc[p].resp EXCEPT ![n] = "error"]
           V == proc[p].val
<1>1. proc[p] \in Request /\ proc \in [Procs -> Request]
  BY DEF Types
<1>2. R \in [Nodes -> Responses] /\ V \in [Nodes -> Nat]
  BY <1>1, Zenon DEF Request, Responses
<1>3. [proc[p] EXCEPT !.resp = R] = [proc[p] EXCEPT !.resp = R, !.val = V]
  BY <1>1, Zenon DEF Request
<1>4. proc' = [proc EXCEPT ![p] = [proc[p] EXCEPT !.resp = R, !.val = V]]
  BY <1>3, Zenon
<1> HIDE DEF R, V
<1>5. Only(p) /\ Same(p) /\ proc'[p].resp = R /\ proc'[p].val = V
  BY <1>2, <1>4, CallAnswered, ZenonT(60)
<1> QED
  BY <1>5 DEF R, V

LEMMA ReadReplicaStep ==
  ASSUME Types, NEW p \in Procs, NEW n \in Nodes, ReadReplica(p, n)
  PROVE  /\ Only(p) /\ Same(p) /\ UNCHANGED <<ops, store, net, applied, local, idem, acked, hints>>
         /\ proc[p].at = "reading"
         /\ proc'[p].resp = [proc[p].resp EXCEPT ![n] = IF store[n] = 0 THEN "notfound" ELSE "ok"]
         /\ proc'[p].val = [proc[p].val EXCEPT ![n] = store[n]]
<1> DEFINE R == [proc[p].resp EXCEPT ![n] = IF store[n] = 0 THEN "notfound" ELSE "ok"]
           V == [proc[p].val EXCEPT ![n] = store[n]]
<1>1. proc[p] \in Request /\ proc \in [Procs -> Request] /\ store[n] \in Nat
  BY DEF Types
<1>2. R \in [Nodes -> Responses] /\ V \in [Nodes -> Nat]
  BY <1>1, Zenon DEF Request, Responses
<1>3. proc' = [proc EXCEPT ![p] = [proc[p] EXCEPT !.resp = R, !.val = V]]
  BY Zenon DEF ReadReplica
<1> HIDE DEF R, V
<1>4. Only(p) /\ Same(p) /\ proc'[p].resp = R /\ proc'[p].val = V
  BY <1>2, <1>3, CallAnswered, Zenon
<1> QED
  BY <1>4 DEF ReadReplica, R, V

LEMMA FailReadStep ==
  ASSUME Types, NEW p \in Procs, NEW n \in Nodes, FailRead(p, n)
  PROVE  /\ Only(p) /\ Same(p) /\ UNCHANGED <<ops, store, net, applied, local, idem, acked, hints>>
         /\ proc[p].at = "reading"
         /\ proc'[p].resp = [proc[p].resp EXCEPT ![n] = "error"]
         /\ proc'[p].val = proc[p].val
BY CallFailed, Zenon DEF FailRead

LEMMA FailWriteStep ==
  ASSUME Types, NEW p \in Procs, NEW n \in Nodes, NEW f, FailWrite(p, n, f)
  PROVE  /\ Only(p) /\ Same(p) /\ UNCHANGED <<ops, store, applied, local, idem, acked>>
         /\ f \in Faults \cap {"lost", "late"}
         /\ proc[p].at = "writing" /\ proc[p].resp[n] = "pending"
         /\ proc'[p].resp = [proc[p].resp EXCEPT ![n] = "error"]
         /\ proc'[p].val = proc[p].val
         /\ hints' = hints \cup {<<Home[p], n, proc[p].op>>}
         /\ net' = IF f = "lost" THEN net \ {<<n, proc[p].op>>} ELSE net
BY CallFailed, Zenon DEF FailWrite, StoreHint

LEMMA AnswerStep ==
  ASSUME Types, NEW n \in Nodes, NEW o, NEW a \in Responses, proc' = Answer(o, n, a)
  PROVE  /\ proc' \in [Procs -> Request]
         /\ \A q \in Procs :
              /\ Same(q) /\ proc'[q].val = proc[q].val
              /\ \A m \in Nodes : proc'[q].resp[m] =
                   IF q \in Waiting(o, n) /\ m = n THEN a ELSE proc[q].resp[m]
<1>1. ASSUME NEW q \in Procs
      PROVE  /\ proc'[q] \in Request /\ Same(q) /\ proc'[q].val = proc[q].val
             /\ \A m \in Nodes : proc'[q].resp[m] =
                   IF q \in Waiting(o, n) /\ m = n THEN a ELSE proc[q].resp[m]
  <2>1. proc[q] \in Request
    BY DEF Types
  <2>2. CASE q \notin Waiting(o, n)
    <3>1. proc'[q] = proc[q]
      BY <2>2 DEF Answer
    <3> QED
      BY <2>1, <2>2, <3>1 DEF Same
  <2>3. CASE q \in Waiting(o, n)
    <3> DEFINE r == [proc[q] EXCEPT !.resp = [proc[q].resp EXCEPT ![n] = a]]
    <3>1. proc'[q] = r
      BY <2>3 DEF Answer
    <3>2. [proc[q].resp EXCEPT ![n] = a] \in [Nodes -> Responses]
          /\ \A m \in Nodes : [proc[q].resp EXCEPT ![n] = a][m] = IF m = n THEN a ELSE proc[q].resp[m]
      BY <2>1, Zenon DEF Request
    <3>3. /\ r \in Request /\ r.at = proc[q].at /\ r.level = proc[q].level /\ r.op = proc[q].op
          /\ r.base = proc[q].base /\ r.must = proc[q].must /\ r.val = proc[q].val
          /\ r.resp = [proc[q].resp EXCEPT ![n] = a]
      BY <2>1, <3>2, Zenon DEF Request
    <3> HIDE DEF r
    <3> QED
      BY <2>3, <3>1, <3>2, <3>3 DEF Same
  <2> QED
    BY <2>2, <2>3
<1>2. proc' \in [Procs -> Request]
  <2>1. proc' = [q \in Procs |-> proc'[q]]
    BY DEF Answer
  <2> QED
    BY <1>1, <2>1
<1> QED
  BY <1>1, <1>2

LEMMA ReturnReadStep ==
  ASSUME Types, NEW p \in Procs, ReturnRead(p)
  PROVE  /\ Only(p) /\ UNCHANGED <<ops, store, net, applied, local, idem, acked, hints>>
         /\ proc'[p] = Idle
BY IdleIs, Zenon DEF ReturnRead, Types, Only

LEMMA RestartStep ==
  ASSUME Types, NEW c \in Coords, Restart(c)
  PROVE  /\ UNCHANGED <<ops, store, net, applied, idem, acked>> /\ hints' \subseteq hints
         /\ proc' \in [Procs -> Request] /\ local' \in [Coords -> Nat]
         /\ restarts < MaxRestarts
         /\ \A p \in Procs : proc'[p] = proc[p] \/ proc'[p] = Idle
<1>1. proc \in [Procs -> Request] /\ local \in [Coords -> Nat]
  BY DEF Types
<1>2. proc' = [p \in Procs |-> IF Home[p] = c THEN Idle ELSE proc[p]]
  BY DEF Restart
<1> QED
  BY <1>1, <1>2, IdleIs, Zenon DEF Restart

\* A read that has all its answers ends, or returns the version DetectConflicts keeps.
LEMMA FinishReadStep ==
  ASSUME Types, NEW p \in Procs, FinishRead(p)
  PROVE  /\ UNCHANGED <<ops, store, net, applied, local, idem, acked>>
         /\ proc[p].at = "reading" /\ AnsweredAll(p)
         /\ \/ proc'[p] = Idle /\ hints' = hints /\ Only(p)
            \/ /\ IsQuorumReached(Cardinality(Successes(p)), Cardinality(Nodes), proc[p].level)
               /\ \E order \in Orders(p) :
                    LET d == DetectConflicts(p, order)
                    IN  /\ d.latest \in Nat => /\ Only(p)
                                               /\ proc'[p].level = proc[p].level
                                               /\ proc'[p].base = proc[p].base
                                               /\ proc'[p].must = proc[p].must
                                               /\ proc'[p].resp = proc[p].resp
                                               /\ proc'[p].val = proc[p].val
                                               /\ proc'[p].at = "read" /\ proc'[p].op = d.latest
                        /\ \A h \in hints' : h \in hints \/
                             \E n \in Nodes : h = <<Home[p], n, d.latest>>
<1>1. proc \in [Procs -> Request] /\ proc[p] \in Request
  BY DEF Types
<1>2. CASE proc' = [proc EXCEPT ![p] = Idle] /\ hints' = hints
  <2>1. proc'[p] = Idle /\ Only(p)
    BY <1>1, <1>2, IdleIs, Zenon DEF Only
  <2> QED
    BY <1>2, <2>1, Zenon DEF FinishRead
<1>3. ASSUME IsQuorumReached(Cardinality(Successes(p)), Cardinality(Nodes), proc[p].level),
             NEW order \in Orders(p), NEW d, d = DetectConflicts(p, order),
             proc' = [proc EXCEPT ![p].at = "read", ![p].op = d.latest],
             hints' = hints \cup (IF d.conflict THEN ReadRepair(p, d.latest) ELSE {})
      PROVE  /\ d.latest \in Nat => /\ Only(p)
                                    /\ proc'[p].level = proc[p].level
                                    /\ proc'[p].base = proc[p].base
                                    /\ proc'[p].must = proc[p].must
                                    /\ proc'[p].resp = proc[p].resp
                                    /\ proc'[p].val = proc[p].val
                                    /\ proc'[p].at = "read" /\ proc'[p].op = d.latest
             /\ \A h \in hints' : h \in hints \/ \E n \in Nodes : h = <<Home[p], n, d.latest>>
  <2>1. ASSUME NEW h \in hints', h \notin hints PROVE \E n \in Nodes : h = <<Home[p], n, d.latest>>
    <3>1. h \in ReadRepair(p, d.latest)
      BY <1>3, <2>1
    <3> QED
      BY <3>1 DEF ReadRepair, StoreHint
  <2> DEFINE r == [proc[p] EXCEPT !.at = "read", !.op = d.latest]
  <2>2. ASSUME d.latest \in Nat
        PROVE  /\ r \in Request /\ r.level = proc[p].level /\ r.base = proc[p].base
               /\ r.must = proc[p].must /\ r.resp = proc[p].resp /\ r.val = proc[p].val
               /\ r.at = "read" /\ r.op = d.latest
    BY <1>1, <2>2, Zenon DEF Request
  <2>3. proc' = [proc EXCEPT ![p] = r]
    BY <1>1, <1>3, Zenon
  <2> HIDE DEF r
  <2>4. ASSUME d.latest \in Nat PROVE Only(p) /\ proc'[p] = r
    BY <1>1, <2>2, <2>3, <2>4 DEF Only
  <2> QED
    BY <2>1, <2>2, <2>4
<1>4. CASE \E order \in Orders(p) :
             LET d == DetectConflicts(p, order)
             IN  /\ proc' = [proc EXCEPT ![p].at = "read", ![p].op = d.latest]
                 /\ hints' = hints \cup (IF d.conflict THEN ReadRepair(p, d.latest) ELSE {})
                 /\ IsQuorumReached(Cardinality(Successes(p)), Cardinality(Nodes), proc[p].level)
  BY <1>3, <1>4, Zenon DEF FinishRead
<1> QED
  BY <1>2, <1>4, Zenon DEF FinishRead

\* What is known of a request, by where it is.
Quorate(p) ==
  IsQuorumReached(Cardinality(Successes(p)), Cardinality(Nodes), proc[p].level)
WriteOK(p) ==
  LET o == proc[p].op
  IN  /\ o \in 1..Len(ops) /\ o \notin acked
      /\ ops[o].level = proc[p].level /\ ops[o].coord = Home[p]
      /\ \A n \in Nodes : /\ proc[p].resp[n] = "ok" => <<n, o>> \in applied
                          /\ proc[p].resp[n] = "pending" => <<n, o>> \in net
ValuesOK(p) ==
  \A n \in Nodes : \/ proc[p].val[n] = 0 /\ (proc[p].at \in {"reading", "read"} => proc[p].resp[n] # "ok")
                   \/ <<n, proc[p].val[n]>> \in applied
RequestOK(p) ==
  /\ proc[p].base \in 0..Len(ops) /\ proc[p].must \subseteq acked
  /\ proc[p].at = "writing" => WriteOK(p)
  /\ ValuesOK(p)
  /\ proc[p].at = "read" => proc[p].op \in 1..Len(ops) /\ Quorate(p)
\* No two requests have the same write.
OpsDiffer ==
  \A p, q \in Procs :
    proc[p].at = "writing" /\ proc[q].at = "writing" /\ proc[p].op = proc[q].op => p = q
\* The writes that were answered when a write began were made before it.
AfterBefore == \A o \in DOMAIN ops : ops[o].after \subseteq 1..(o - 1)
\* The inductive invariant the theorems share.
BaseInv ==
  /\ Types /\ TypeOK /\ AfterBefore /\ OpsDiffer
  /\ \A p \in Procs : RequestOK(p)

\* What is durable stays: writes, their acknowledgements and their deliveries.
Grows ==
  /\ Len(ops') \in Nat /\ Len(ops) <= Len(ops')
  /\ \A o \in 1..Len(ops) : ops'[o] = ops[o]
  /\ acked \subseteq acked' /\ applied \subseteq applied'

\* What is known of a request that does not step stays true.
LEMMA RequestKept ==
  ASSUME Types, NEW p \in Procs, RequestOK(p), proc'[p] = proc[p], Grows,
         proc[p].at = "writing" =>
           /\ proc[p].op \notin acked'
           /\ \A n \in Nodes : <<n, proc[p].op>> \in net => \/ <<n, proc[p].op>> \in net'
                                                            \/ proc[p].resp[n] # "pending"
  PROVE  RequestOK(p)'
<1>1. Len(ops) \in Nat
  BY OpsIs
<1>2. Successes(p)' = Successes(p)
  BY DEF Successes
<1>3. Quorate(p) => Quorate(p)'
  BY <1>2, Zenon DEF Quorate
<1>4. ValuesOK(p)'
  BY DEF RequestOK, ValuesOK, Grows
<1>5. WriteOK(p)' \/ proc[p].at # "writing"
  BY <1>1 DEF RequestOK, WriteOK, Grows
<1> QED
  BY <1>1, <1>3, <1>4, <1>5 DEF RequestOK, Grows

LEMMA IdleOK ==
  ASSUME Types, Grows, NEW p \in Procs, proc'[p] = Idle
  PROVE  RequestOK(p)'
<1>2. ValuesOK(p)'
  BY IdleIs, Zenon DEF ValuesOK
<1>3. proc'[p].base = 0 /\ proc'[p].must = {} /\ proc'[p].at = "idle"
  BY IdleIs, Zenon
<1>4. 0 \in 0..Len(ops')
  BY DEF Grows
<1> QED
  BY <1>2, <1>3, <1>4 DEF RequestOK

LEMMA SameGrows ==
  ASSUME Types, UNCHANGED <<ops, applied, acked>>
  PROVE  Grows
BY OpsIs DEF Grows

LEMMA NewRequestOK ==
  ASSUME Types, NEW p \in Procs, UNCHANGED <<ops, acked>>,
         proc'[p].at \in {"existing", "reading"}, proc'[p].base = 0, proc'[p].must = acked,
         \A n \in Nodes : /\ proc'[p].val[n] = 0
                          /\ proc'[p].at = "reading" => proc'[p].resp[n] = "pending"
  PROVE  RequestOK(p)'
<1>1. Len(ops) \in Nat
  BY OpsIs
<1>2. ValuesOK(p)'
  BY DEF ValuesOK
<1> QED
  BY <1>1, <1>2 DEF RequestOK

\* A step that changes no more than the request of p.
LEMMA OnlyRequest ==
  ASSUME BaseInv, NEW p \in Procs, Only(p), RequestOK(p)', proc'[p].at # "writing",
         UNCHANGED <<ops, store, net, applied, local, idem, acked, hints>>
  PROVE  BaseInv'
<1>1. Grows
  BY OpsIs DEF BaseInv, Grows
<1>2. \A q \in Procs : RequestOK(q)'
  <2> SUFFICES ASSUME NEW q \in Procs \ {p} PROVE RequestOK(q)'
    OBVIOUS
  <2>1. proc'[q] = proc[q] /\ RequestOK(q)
    BY DEF Only, BaseInv
  <2>2. proc[q].at = "writing" => proc[q].op \notin acked'
    BY <2>1 DEF RequestOK, WriteOK
  <2> QED
    BY <1>1, <2>1, <2>2, RequestKept DEF BaseInv
<1>3. Types'
  BY DEF BaseInv, Types, Only
<1>4. TypeOK' /\ AfterBefore'
  <2>1. \A q \in Procs : proc'[q].at \in {"idle", "existing", "clock", "writing", "reading", "read"}
    BY Zenon DEF Only, Request
  <2> QED
    BY <2>1 DEF BaseInv, TypeOK, AfterBefore
<1>5. OpsDiffer'
  BY DEF BaseInv, OpsDiffer, Only
<1> QED
  BY <1>2, <1>3, <1>4, <1>5 DEF BaseInv

\* The version a read returns is one that a replica answered with, none of the others
\* is after it, and it is on record.
LEMMA ReadAnswer ==
  ASSUME CoordinatorAssumption, BaseInv, NEW p \in Procs, proc[p].at = "reading", Quorate(p),
         NEW order \in Orders(p)
  PROVE  LET v == DetectConflicts(p, order).latest
         IN  /\ v \in 1..Len(ops)
             /\ \E n \in Successes(p) : proc[p].val[n] = v
             /\ \A n \in Successes(p) : Compare(VC(proc[p].val[n]), VC(v)) # "After"
<1> DEFINE S == Successes(p)
           k == Cardinality(S)
<1>1. IsFiniteSet(Nodes) /\ Nodes # {} /\ S \in SUBSET Nodes
  BY DEF CoordinatorAssumption, Successes
<1>2. IsFiniteSet(S) /\ k \in Nat /\ Cardinality(Nodes) \in Nat /\ Cardinality(Nodes) # 0
  BY <1>1, FS_Subset, FS_CardinalityType, FS_EmptySet
<1>3. k \in Nat \ {0}
  <2>1. k >= GetRequiredReplicas(proc[p].level, Cardinality(Nodes), Cardinality(Nodes))
    BY DEF Quorate, IsQuorumReached
  <2>2. proc[p].level \in AllLevels
    BY Zenon DEF BaseInv, Types, Request
  <2> QED
    BY <1>2, <2>1, <2>2 DEF GetRequiredReplicas, CalculateQuorum, AllLevels
<1>4. /\ order \in [1..k -> S] /\ \A n \in S : \E i \in 1..k : order[i] = n
  BY DEF Orders, Bijection, Injection, Surjection
<1>6. \A n \in S : proc[p].val[n] \in 1..Len(ops)
  <2>1. applied \subseteq Nodes \X (1..Len(ops))
    BY OpsIs DEF BaseInv, TypeOK
  <2>2. \A n \in S : n \in Nodes /\ proc[p].resp[n] = "ok"
    BY DEF Successes
  <2>3. \A n \in S : <<n, proc[p].val[n]>> \in applied
    BY <2>2 DEF BaseInv, RequestOK, ValuesOK
  <2> QED
    BY <2>1, <2>3, Zenon
<1>7. \A o \in 1..Len(ops) : VC(o) \in Clock /\ o # 0
  BY OpsIs DEF BaseInv, VC, Write
<1>8. \A o \in 1..Len(ops) : IsClock(VC(o))
  BY <1>7 DEF Clock, IsClock
<1> HIDE DEF S, k
<1>9. \A i \in 1..k : proc[p].val[order[i]] \in Nat \ {0} /\ IsClock(VC(proc[p].val[order[i]]))
  BY <1>4, <1>6, <1>8
<1>10. LET d == DetectConflicts(p, order)
       IN  /\ \E i \in 1..k : d.latest = proc[p].val[order[i]]
           /\ \A i \in 1..k : Compare(VC(proc[p].val[order[i]]), VC(d.latest)) # "After"
  <2>1. \A i \in 1..k : proc[p].val[order[i]] \in Nat \ {0}
    BY <1>9
  <2>2. \A i \in 1..k : IsClock(VC(proc[p].val[order[i]]))
    BY <1>9
  <2>3. k = Cardinality(Successes(p))
    BY DEF k, S
  <2> QED
    BY <1>3, <2>1, <2>2, <2>3, LatestIsMaximal
<1> QED
  BY <1>4, <1>6, <1>10 DEF S

\* The steps that change no more than a request, one by one.
LEMMA RequestSteps ==
  ASSUME CoordinatorAssumption, BaseInv, NEW p \in Procs,
         \/ ReadExistingValue(p) \/ ReturnRead(p)
         \/ \E l \in Levels : BeginRead(p, l)
         \/ \E l \in Levels, k \in IKeys \cup {""} : BeginWrite(p, l, k)
         \/ \E n \in Nodes : ReadReplica(p, n) \/ FailRead(p, n)
  PROVE  BaseInv'
<1> USE DEF BaseInv
<1>1. /\ Len(ops) \in Nat /\ proc[p] \in Request /\ RequestOK(p)
      /\ \A n \in Nodes : store[n] = 0 \/ <<n, store[n]>> \in applied
  BY OpsIs, Zenon DEF Types, TypeOK
<1>2. CASE ReadExistingValue(p)
  <2>1. /\ Only(p) /\ UNCHANGED <<ops, store, net, applied, local, idem, acked, hints>>
        /\ proc'[p].at = "clock" /\ proc'[p].base \in 0..Len(ops)
        /\ proc'[p].must = proc[p].must /\ proc'[p].val = proc[p].val
    BY <1>2, ReadExistingValueStep
  <2>2. RequestOK(p)'
    BY <1>1, <2>1, Zenon DEF RequestOK, ValuesOK
  <2> QED
    BY <2>1, <2>2, OnlyRequest, Zenon
<1>3. CASE ReturnRead(p)
  <2>1. /\ Only(p) /\ UNCHANGED <<ops, store, net, applied, local, idem, acked, hints>>
        /\ proc'[p] = Idle
    BY <1>3, ReturnReadStep
  <2>2. Grows
    BY <2>1, SameGrows, Zenon
  <2>3. RequestOK(p)' /\ proc'[p].at # "writing"
    BY <2>1, <2>2, IdleOK, IdleIs, Zenon
  <2> QED
    BY <2>1, <2>3, OnlyRequest, Zenon
<1>4. ASSUME NEW l \in Levels, BeginRead(p, l) PROVE BaseInv'
  <2>1. /\ Only(p) /\ UNCHANGED <<ops, store, net, applied, local, idem, acked, hints>>
        /\ proc'[p].at = "reading" /\ proc'[p].base = 0 /\ proc'[p].must = acked
        /\ \A n \in Nodes : proc'[p].resp[n] = "pending" /\ proc'[p].val[n] = 0
    BY <1>4, BeginReadStep, Zenon
  <2>2. RequestOK(p)'
    BY <2>1, NewRequestOK, Zenon
  <2> QED
    BY <2>1, <2>2, OnlyRequest, Zenon
<1>5. ASSUME NEW l \in Levels, NEW k \in IKeys \cup {""}, BeginWrite(p, l, k) PROVE BaseInv'
  <2>1. /\ Only(p) /\ UNCHANGED <<ops, store, net, applied, local, idem, acked, hints>>
        /\ proc'[p].at = "existing" /\ proc'[p].base = 0 /\ proc'[p].must = acked
        /\ \A n \in Nodes : proc'[p].val[n] = 0
    BY <1>5, BeginWriteStep, Zenon
  <2>2. RequestOK(p)'
    BY <2>1, NewRequestOK, Zenon
  <2> QED
    BY <2>1, <2>2, OnlyRequest, Zenon
<1>6. ASSUME NEW n \in Nodes, ReadReplica(p, n) PROVE BaseInv'
  <2>1. /\ Only(p) /\ Same(p) /\ UNCHANGED <<ops, store, net, applied, local, idem, acked, hints>>
        /\ proc[p].at = "reading"
        /\ proc'[p].resp = [proc[p].resp EXCEPT ![n] = IF store[n] = 0 THEN "notfound" ELSE "ok"]
        /\ proc'[p].val = [proc[p].val EXCEPT ![n] = store[n]]
    BY <1>6, ReadReplicaStep, Zenon
  <2>2. proc[p].resp \in [Nodes -> Responses] /\ proc[p].val \in [Nodes -> Nat]
    BY <1>1, Zenon DEF Request
  <2>3. ValuesOK(p)'
    BY <1>1, <2>1, <2>2, Zenon DEF RequestOK, ValuesOK, Same
  <2>4. RequestOK(p)' /\ proc'[p].at # "writing"
    BY <1>1, <2>1, <2>3, Zenon DEF RequestOK, Same
  <2> QED
    BY <2>1, <2>4, OnlyRequest, Zenon
<1>7. ASSUME NEW n \in Nodes, FailRead(p, n) PROVE BaseInv'
  <2>1. /\ Only(p) /\ Same(p) /\ UNCHANGED <<ops, store, net, applied, local, idem, acked, hints>>
        /\ proc[p].at = "reading"
        /\ proc'[p].resp = [proc[p].resp EXCEPT ![n] = "error"]
        /\ proc'[p].val = proc[p].val
    BY <1>7, FailReadStep, Zenon
  <2>2. proc[p].resp \in [Nodes -> Responses]
    BY <1>1, Zenon DEF Request
  <2>3. ValuesOK(p)'
    BY <1>1, <2>1, <2>2, Zenon DEF RequestOK, ValuesOK, Same
  <2>4. RequestOK(p)' /\ proc'[p].at # "writing"
    BY <1>1, <2>1, <2>3, Zenon DEF RequestOK, Same
  <2> QED
    BY <2>1, <2>4, OnlyRequest, Zenon
<1> QED
  BY <1>2, <1>3, <1>4, <1>5, <1>6, <1>7, Zenon

\* The other steps, one by one, preserve the base invariant.
LEMMA StartWritesOK ==
  ASSUME CoordinatorAssumption, BaseInv, NEW p \in Procs, StartWrites(p)
  PROVE  BaseInv'
<1> DEFINE o == Len(ops) + 1
<1>1. Types /\ Len(ops) \in Nat /\ DOMAIN ops = 1..Len(ops) /\ RequestOK(p)
      /\ proc[p].base \in 0..Len(ops)
  BY OpsIs DEF BaseInv, RequestOK
<1>2. /\ Only(p) /\ UNCHANGED <<store, applied, idem, acked, hints>>
      /\ proc[p].at = "clock" /\ proc'[p].at = "writing" /\ proc'[p].op = o
      /\ proc'[p].level = proc[p].level /\ proc'[p].base = proc[p].base
      /\ proc'[p].must = proc[p].must /\ proc'[p].val = proc[p].val
      /\ \A n \in Nodes : proc'[p].resp[n] = "pending"
      /\ ops' \in Seq(Write) /\ Len(ops') = o /\ DOMAIN ops' = 1..o
      /\ \A i \in 1..Len(ops) : ops'[i] = ops[i]
      /\ ops'[o].base = proc[p].base
      /\ ops'[o].coord = Home[p] /\ ops'[o].level = proc[p].level
      /\ ops'[o].after = proc[p].must
      /\ local' = [local EXCEPT ![Home[p]] = TakeClock(p).local]
      /\ net' = net \cup (Nodes \X {o})
  BY <1>1, StartWritesStep
<1>3. TakeClock(p).local \in Nat /\ Home[p] \in Coords
  BY <1>1, TakeClockIs
<1>4. Types'
  BY <1>1, <1>2, <1>3 DEF Types, Only
<1>5. acked \subseteq 1..Len(ops) /\ net \subseteq Nodes \X (1..Len(ops))
      /\ applied \subseteq Nodes \X (1..Len(ops)) /\ applied \cap net = {}
      /\ hints \subseteq Coords \X Nodes \X (1..Len(ops)) /\ idem \subseteq IKeys
      /\ (\A n \in Nodes : store[n] = 0 \/ <<n, store[n]>> \in applied)
      /\ \A i \in 1..Len(ops) : ops[i].base \in 0..(i - 1) /\ ops[i].coord \in Coords
  BY <1>1 DEF BaseInv, TypeOK
<1>6. o \in Nat /\ o \notin 1..Len(ops) /\ o \in 1..o /\ (\A i \in 1..Len(ops) : i \in 1..o)
      /\ \A i \in 1..o : (i = o \/ i \in 1..Len(ops))
  BY <1>1
<1> HIDE DEF o
<1>7. TypeOK'
  <2>1. \A i \in DOMAIN ops' : ops'[i].base \in 0..(i - 1) /\ ops'[i].coord \in Coords
    <3>1. proc[p].base \in 0..(o - 1)
      BY <1>1 DEF o
    <3> QED
      BY <1>2, <1>3, <1>5, <1>6, <3>1
  <2>2. net' \subseteq Nodes \X DOMAIN ops'
    BY <1>2, <1>5, <1>6
  <2>3. applied' \subseteq (Nodes \X DOMAIN ops') \ net'
    BY <1>2, <1>5, <1>6
  <2>4. \A q \in Procs : proc'[q].at \in {"idle", "existing", "clock", "writing", "reading", "read"}
    BY <1>2, Zenon DEF Only, Request
  <2>5. acked' \subseteq DOMAIN ops' /\ hints' \subseteq Coords \X Nodes \X DOMAIN ops'
    BY <1>2, <1>5, <1>6
  <2> QED
    BY <1>2, <1>5, <2>1, <2>2, <2>3, <2>4, <2>5 DEF TypeOK
<1>8. AfterBefore'
  <2>1. proc[p].must \subseteq 1..(o - 1)
    <3>1. o - 1 = Len(ops)
      BY <1>1 DEF o
    <3> QED
      BY <1>1, <1>5, <3>1, Zenon DEF RequestOK
  <2> QED
    BY <1>1, <1>2, <1>6, <2>1 DEF BaseInv, AfterBefore
<1>9. ASSUME NEW q \in Procs, proc[q].at = "writing" PROVE proc[q].op \in 1..Len(ops) /\ q # p
  BY <1>2, <1>9 DEF BaseInv, RequestOK, WriteOK
<1>10. OpsDiffer'
  <2> SUFFICES ASSUME NEW q \in Procs, NEW r \in Procs, proc'[q].at = "writing",
                      proc'[r].at = "writing", proc'[q].op = proc'[r].op
               PROVE  q = r
    BY DEF OpsDiffer
  <2>1. ASSUME NEW x \in Procs \ {p}, proc'[x].at = "writing"
        PROVE  proc'[x] = proc[x] /\ proc'[x].op \in 1..Len(ops) /\ proc'[x].op # o
    BY <1>2, <1>6, <1>9, <2>1 DEF Only
  <2>2. CASE q = p \/ r = p
    BY <1>2, <2>1, <2>2
  <2>3. CASE q # p /\ r # p
    BY <2>1, <2>3 DEF BaseInv, OpsDiffer
  <2> QED
    BY <2>2, <2>3
<1>11. Grows
  BY <1>1, <1>2, <1>6 DEF Grows, o
<1>12. ASSUME NEW q \in Procs PROVE RequestOK(q)'
  <2>1. CASE q # p
    <3>1. RequestOK(q) /\ proc'[q] = proc[q]
      BY <1>2, <2>1 DEF BaseInv, Only
    <3>2. proc[q].at = "writing" => proc[q].op \notin acked'
      BY <1>2, <3>1 DEF RequestOK, WriteOK
    <3> QED
      BY <1>1, <1>2, <1>11, <3>1, <3>2, RequestKept
  <2>2. CASE q = p
    <3>1. ValuesOK(p)'
      BY <1>1, <1>2 DEF RequestOK, ValuesOK
    <3>2. WriteOK(p)'
      BY <1>2, <1>5, <1>6, Zenon DEF WriteOK
    <3>3. proc[p].base \in 0..o
      BY <1>1 DEF o
    <3> QED
      BY <1>1, <1>2, <2>2, <3>1, <3>2, <3>3 DEF RequestOK
  <2> QED
    BY <2>1, <2>2
<1> QED
  BY <1>4, <1>7, <1>8, <1>10, <1>12 DEF BaseInv

LEMMA FinishWriteOK ==
  ASSUME CoordinatorAssumption, BaseInv, NEW p \in Procs, FinishWrite(p)
  PROVE  BaseInv'
<1>1. /\ Only(p) /\ UNCHANGED <<ops, store, net, applied, local, hints>>
      /\ proc[p].at = "writing" /\ proc'[p] = Idle
      /\ idem' \subseteq idem \cup ({proc[p].ikey} \ {""})
      /\ (acked' = acked \/ acked' = acked \cup {proc[p].op})
  BY FinishWriteStep, Zenon DEF BaseInv
<1>2. proc[p].op \in 1..Len(ops) /\ Len(ops) \in Nat /\ DOMAIN ops = 1..Len(ops)
  BY <1>1, OpsIs, Zenon DEF BaseInv, RequestOK, WriteOK
<1>9. proc[p].op \in Nat /\ Len(ops) <= Len(ops)
  BY <1>2
<1>11. Types /\ proc[p].ikey \in IKeys \cup {""}
  BY Zenon DEF BaseInv, Types, Request
<1>10. acked \subseteq acked' /\ acked' \subseteq acked \cup {proc[p].op}
  BY <1>1, Zenon
<1>3. Types'
  BY <1>1, <1>2, <1>11, <1>9, <1>10, Zenon DEF Types, Only
<1>4. Grows
  BY <1>1, <1>2, <1>11, <1>9, <1>10, Zenon DEF Grows
<1>5. TypeOK' /\ AfterBefore'
  <2>1. \A q \in Procs : proc'[q].at \in {"idle", "existing", "clock", "writing", "reading", "read"}
    BY <1>1, Zenon DEF Only, Request
  <2>2. acked' \subseteq DOMAIN ops' /\ idem' \subseteq IKeys
    BY <1>1, <1>2, <1>11, Zenon DEF BaseInv, TypeOK
  <2> QED
    BY <1>1, <2>1, <2>2, Zenon DEF BaseInv, TypeOK, AfterBefore
<1>6. proc'[p].at = "idle"
  BY <1>1, IdleIs, Zenon
<1>7. OpsDiffer'
  BY <1>1, <1>6, Zenon DEF BaseInv, OpsDiffer, Only
<1>8. ASSUME NEW q \in Procs PROVE RequestOK(q)'
  <2>1. CASE q = p
    BY <1>1, <1>2, <1>11, <1>4, <2>1, IdleOK, Zenon
  <2>2. CASE q # p
    <3>1. RequestOK(q) /\ proc'[q] = proc[q]
      BY <1>1, <2>2, Zenon DEF BaseInv, Only
    <3>2. proc[q].at = "writing" => proc[q].op # proc[p].op
      BY <1>1, <2>2, Zenon DEF BaseInv, OpsDiffer
    <3>3. proc[q].at = "writing" => proc[q].op \notin acked'
      BY <1>1, <3>1, <3>2, Zenon DEF RequestOK, WriteOK
    <3> QED
      BY <1>1, <1>2, <1>11, <1>4, <3>1, <3>3, RequestKept, Zenon
  <2> QED
    BY <2>1, <2>2
<1> QED
  BY <1>3, <1>5, <1>7, <1>8 DEF BaseInv

\* A delivery, an answer or a failure: requests lose pending calls and nothing more.
LEMMA CallsOK ==
  ASSUME BaseInv, UNCHANGED <<ops, local, idem, acked>>, proc' \in [Procs -> Request],
         \A q \in Procs : Same(q) /\ proc'[q].val = proc[q].val,
         \A q \in Procs : \A m \in Nodes :
           proc[q].at \in {"reading", "read"} => proc'[q].resp[m] = proc[q].resp[m],
         \A q \in Procs : \A m \in Nodes : proc[q].at = "writing" =>
           /\ proc'[q].resp[m] = "ok" => <<m, proc[q].op>> \in applied'
           /\ proc'[q].resp[m] = "pending" => <<m, proc[q].op>> \in net',
         store' \in [Nodes -> Nat], net' \subseteq net, applied \subseteq applied',
         applied' \subseteq applied \cup (net \ net'),
         \A n \in Nodes : store'[n] = store[n] \/ <<n, store'[n]>> \in applied',
         \A h \in hints' : h \in hints \/ h \in Coords \X Nodes \X (1..Len(ops))
  PROVE  BaseInv'
<1>1. Types /\ Len(ops) \in Nat /\ DOMAIN ops = 1..Len(ops)
  BY OpsIs DEF BaseInv
<1>2. Types'
  BY <1>1 DEF Types
<1>3. TypeOK'
  <2>1. \A q \in Procs : proc'[q].at \in {"idle", "existing", "clock", "writing", "reading", "read"}
    BY Zenon DEF Request
  <2>2. /\ net' \subseteq Nodes \X DOMAIN ops' /\ applied' \subseteq (Nodes \X DOMAIN ops') \ net'
        /\ hints' \subseteq Coords \X Nodes \X DOMAIN ops'
    BY <1>1 DEF BaseInv, TypeOK
  <2>3. ASSUME NEW n \in Nodes PROVE store'[n] = 0 \/ <<n, store'[n]>> \in applied'
    BY DEF BaseInv, TypeOK
  <2> QED
    BY <2>1, <2>2, <2>3 DEF BaseInv, TypeOK
<1>4. OpsDiffer' /\ AfterBefore'
  BY DEF BaseInv, OpsDiffer, AfterBefore, Same
<1>5. ASSUME NEW q \in Procs PROVE RequestOK(q)'
  <2>1. RequestOK(q) /\ Same(q) /\ proc'[q].val = proc[q].val
    BY DEF BaseInv
  <2>2. ValuesOK(q)'
    BY <2>1, Zenon DEF RequestOK, ValuesOK, Same
  <2>3. ASSUME proc[q].at = "writing" PROVE WriteOK(q)'
    BY <2>1, <2>3 DEF RequestOK, WriteOK, Same
  <2>4. ASSUME proc[q].at = "read" PROVE Quorate(q)'
    <3>1. Successes(q)' = Successes(q)
      BY <2>4, Zenon DEF Successes
    <3> QED
      BY <2>1, <2>4, <3>1, Zenon DEF RequestOK, Quorate, Same
  <2> QED
    BY <2>1, <2>2, <2>3, <2>4, Zenon DEF RequestOK, Same
<1> QED
  BY <1>2, <1>3, <1>4, <1>5 DEF BaseInv

LEMMA AnswerOK ==
  ASSUME BaseInv, NEW n \in Nodes, NEW o \in 1..Len(ops), Deliver(n, o) \/ Refuse(n, o)
  PROVE  BaseInv'
<1>1. Types /\ Len(ops) \in Nat
  BY OpsIs DEF BaseInv
<1>2. PICK a \in {"ok", "refused"} : proc' = Answer(o, n, a) /\ (a = "ok" => <<n, o>> \in applied')
  BY DEF Deliver, Refuse
<1>3. /\ proc' \in [Procs -> Request]
      /\ \A q \in Procs :
           /\ Same(q) /\ proc'[q].val = proc[q].val
           /\ \A m \in Nodes : proc'[q].resp[m] =
                IF q \in Waiting(o, n) /\ m = n THEN a ELSE proc[q].resp[m]
  <2>1. a \in Responses
    BY DEF Responses
  <2> QED
    BY <1>1, <1>2, <2>1, AnswerStep
<1>4. /\ UNCHANGED <<ops, local, idem, acked, hints>> /\ net' = net \ {<<n, o>>} /\ <<n, o>> \in net
      /\ \/ store' = store /\ applied' = applied
         \/ store' = [store EXCEPT ![n] = o] /\ applied' = applied \cup {<<n, o>>}
  BY DEF Deliver, Refuse
<1>5. store' \in [Nodes -> Nat] /\ \A m \in Nodes : store'[m] = store[m] \/ <<m, store'[m]>> \in applied'
  BY <1>1, <1>4 DEF Types
<1>6. \A q \in Procs : \A m \in Nodes :
        proc[q].at \in {"reading", "read"} => proc'[q].resp[m] = proc[q].resp[m]
  BY <1>3 DEF Waiting
<1>7. ASSUME NEW q \in Procs, NEW m \in Nodes, proc[q].at = "writing"
      PROVE  /\ proc'[q].resp[m] = "ok" => <<m, proc[q].op>> \in applied'
             /\ proc'[q].resp[m] = "pending" => <<m, proc[q].op>> \in net'
  <2>1. /\ proc[q].resp[m] = "ok" => <<m, proc[q].op>> \in applied
        /\ proc[q].resp[m] = "pending" => <<m, proc[q].op>> \in net
    BY <1>7 DEF BaseInv, RequestOK, WriteOK
  <2>2. CASE q \in Waiting(o, n) /\ m = n
    <3>1. proc[q].op = o /\ proc'[q].resp[m] = a
      BY <1>3, <2>2 DEF Waiting
    <3> QED
      BY <1>2, <2>2, <3>1
  <2>3. CASE ~(q \in Waiting(o, n) /\ m = n)
    <3>1. proc'[q].resp[m] = proc[q].resp[m]
      BY <1>3, <2>3
    <3>2. proc[q].resp[m] = "pending" => <<m, proc[q].op>> # <<n, o>>
      BY <1>7, <2>3 DEF Waiting
    <3> QED
      BY <1>4, <2>1, <3>1, <3>2
  <2> QED
    BY <2>2, <2>3
<1>8. net' \subseteq net /\ applied \subseteq applied' /\ applied' \subseteq applied \cup (net \ net')
  BY <1>4
<1> QED
  BY <1>3, <1>4, <1>5, <1>6, <1>7, <1>8, CallsOK

LEMMA FailWriteOK ==
  ASSUME CoordinatorAssumption, BaseInv, NEW p \in Procs, NEW n \in Nodes, NEW f, FailWrite(p, n, f)
  PROVE  BaseInv'
<1>1. /\ Only(p) /\ Same(p) /\ UNCHANGED <<ops, store, applied, local, idem, acked>>
      /\ proc[p].at = "writing" /\ proc[p].resp[n] = "pending"
      /\ proc'[p].resp = [proc[p].resp EXCEPT ![n] = "error"]
      /\ proc'[p].val = proc[p].val
      /\ hints' = hints \cup {<<Home[p], n, proc[p].op>>}
      /\ net' = IF f = "lost" THEN net \ {<<n, proc[p].op>>} ELSE net
  BY FailWriteStep DEF BaseInv
<1>2. Types /\ Len(ops) \in Nat /\ Home[p] \in Coords /\ proc[p].op \in 1..Len(ops)
  BY <1>1, OpsIs DEF BaseInv, CoordinatorAssumption, RequestOK, WriteOK
<1>3. proc[p].resp \in [Nodes -> Responses] /\ store \in [Nodes -> Nat]
  BY <1>2, Zenon DEF Types, Request
<1>4. \A q \in Procs : Same(q) /\ proc'[q].val = proc[q].val
  BY <1>1 DEF Only, Same
<1>5. \A q \in Procs : \A m \in Nodes :
        proc'[q].resp[m] = IF q = p /\ m = n THEN "error" ELSE proc[q].resp[m]
  BY <1>1, <1>3 DEF Only
<1>6. ASSUME NEW q \in Procs, NEW m \in Nodes, proc[q].at = "writing"
      PROVE  /\ proc'[q].resp[m] = "ok" => <<m, proc[q].op>> \in applied'
             /\ proc'[q].resp[m] = "pending" => <<m, proc[q].op>> \in net'
  <2>1. /\ proc[q].resp[m] = "ok" => <<m, proc[q].op>> \in applied
        /\ proc[q].resp[m] = "pending" => <<m, proc[q].op>> \in net
    BY <1>6 DEF BaseInv, RequestOK, WriteOK
  <2>2. q # p => proc[q].op # proc[p].op
    BY <1>1, <1>6 DEF BaseInv, OpsDiffer
  <2> QED
    BY <1>1, <1>5, <2>1, <2>2
<1>7. \A h \in hints' : h \in hints \/ h \in Coords \X Nodes \X (1..Len(ops))
  BY <1>1, <1>2
<1>8. net' \subseteq net /\ applied \subseteq applied' /\ applied' \subseteq applied \cup (net \ net')
  BY <1>1
<1>9. \A q \in Procs : \A m \in Nodes :
        proc[q].at \in {"reading", "read"} => proc'[q].resp[m] = proc[q].resp[m]
  BY <1>1, <1>5
<1> QED
  BY <1>1, <1>3, <1>4, <1>6, <1>7, <1>8, <1>9, CallsOK DEF Only

\* A read that reached its quorum returns a version that is on record, and one that
\* none of the versions it was answered with is after.
LEMMA ReadReturns ==
  ASSUME CoordinatorAssumption, BaseInv, NEW p \in Procs, FinishRead(p), proc'[p] # Idle
  PROVE  /\ Only(p) /\ UNCHANGED <<ops, store, net, applied, local, idem, acked>>
         /\ proc[p].at = "reading" /\ AnsweredAll(p) /\ Quorate(p)
         /\ proc'[p].level = proc[p].level /\ proc'[p].base = proc[p].base
         /\ proc'[p].must = proc[p].must /\ proc'[p].resp = proc[p].resp
         /\ proc'[p].val = proc[p].val /\ proc'[p].at = "read" /\ proc'[p].op \in 1..Len(ops)
         /\ \E n \in Successes(p) : proc[p].val[n] = proc'[p].op
         /\ \A n \in Successes(p) : Compare(VC(proc[p].val[n]), VC(proc'[p].op)) # "After"
         /\ \A h \in hints' : h \in hints \/ \E n \in Nodes : h = <<Home[p], n, proc'[p].op>>
<1>1. /\ UNCHANGED <<ops, store, net, applied, local, idem, acked>>
      /\ proc[p].at = "reading" /\ AnsweredAll(p) /\ Quorate(p)
  BY FinishReadStep, Zenon DEF BaseInv, Quorate
<1>2. PICK order \in Orders(p) :
         LET d == DetectConflicts(p, order)
         IN  /\ d.latest \in Nat => /\ Only(p)
                                    /\ proc'[p].level = proc[p].level
                                    /\ proc'[p].base = proc[p].base
                                    /\ proc'[p].must = proc[p].must
                                    /\ proc'[p].resp = proc[p].resp
                                    /\ proc'[p].val = proc[p].val
                                    /\ proc'[p].at = "read" /\ proc'[p].op = d.latest
             /\ \A h \in hints' : h \in hints \/ \E n \in Nodes : h = <<Home[p], n, d.latest>>
  BY FinishReadStep, Zenon DEF BaseInv
<1> DEFINE v == DetectConflicts(p, order).latest
<1>3. /\ v \in 1..Len(ops)
      /\ \E n \in Successes(p) : proc[p].val[n] = v
      /\ \A n \in Successes(p) : Compare(VC(proc[p].val[n]), VC(v)) # "After"
  BY <1>1, ReadAnswer, Zenon
<1> HIDE DEF v
<1>4. v \in Nat
  BY <1>3, OpsIs DEF BaseInv
<1>5. /\ Only(p) /\ proc'[p].level = proc[p].level /\ proc'[p].base = proc[p].base
      /\ proc'[p].must = proc[p].must /\ proc'[p].resp = proc[p].resp
      /\ proc'[p].val = proc[p].val /\ proc'[p].at = "read" /\ proc'[p].op = v
      /\ \A h \in hints' : h \in hints \/ \E n \in Nodes : h = <<Home[p], n, v>>
  BY <1>2, <1>4, Zenon DEF v
<1> QED
  BY <1>1, <1>3, <1>5, Zenon

LEMMA FinishReadOK ==
  ASSUME CoordinatorAssumption, BaseInv, NEW p \in Procs, FinishRead(p)
  PROVE  BaseInv'
<1>1. Types /\ Len(ops) \in Nat /\ DOMAIN ops = 1..Len(ops) /\ RequestOK(p)
  BY OpsIs DEF BaseInv
<1>2. CASE proc'[p] = Idle
  <2>1. /\ UNCHANGED <<ops, store, net, applied, local, idem, acked>>
        /\ hints' = hints /\ Only(p)
    <3>1. Idle.at # "read"
      BY IdleIs, Zenon
    <3>2. ASSUME Quorate(p), NEW order \in Orders(p),
                 DetectConflicts(p, order).latest \in Nat => proc'[p].at = "read"
          PROVE  FALSE
      <4>1. proc[p].at = "reading"
        BY FinishReadStep, Zenon DEF BaseInv
      <4>2. DetectConflicts(p, order).latest \in 1..Len(ops)
        BY <3>2, <4>1, ReadAnswer, Zenon
      <4>3. DetectConflicts(p, order).latest \in Nat
        BY <1>1, <4>2
      <4> QED
        BY <1>2, <3>1, <3>2, <4>3, Zenon
    <3> QED
      BY <3>2, FinishReadStep, Zenon DEF BaseInv, Quorate
  <2>2. Grows
    BY <1>1, <2>1, SameGrows
  <2>3. RequestOK(p)' /\ proc'[p].at # "writing"
    BY <1>1, <1>2, <2>2, IdleOK, IdleIs, Zenon
  <2> QED
    BY <2>1, <2>3, OnlyRequest
<1>3. CASE proc'[p] # Idle
  <2>1. /\ Only(p) /\ UNCHANGED <<ops, store, net, applied, local, idem, acked>>
        /\ proc[p].at = "reading" /\ Quorate(p)
        /\ proc'[p].level = proc[p].level /\ proc'[p].base = proc[p].base
        /\ proc'[p].must = proc[p].must /\ proc'[p].resp = proc[p].resp
        /\ proc'[p].val = proc[p].val /\ proc'[p].at = "read" /\ proc'[p].op \in 1..Len(ops)
        /\ \A h \in hints' : h \in hints \/ \E n \in Nodes : h = <<Home[p], n, proc'[p].op>>
    BY <1>3, ReadReturns, Zenon
  <2>2. Quorate(p)'
    <3>1. Successes(p)' = Successes(p)
      BY <2>1 DEF Successes
    <3> QED
      BY <2>1, <3>1, Zenon DEF Quorate
  <2>3. RequestOK(p)'
    BY <1>1, <2>1, <2>2, Zenon DEF RequestOK, ValuesOK
  <2>4. \A q \in Procs : RequestOK(q)'
    <3> SUFFICES ASSUME NEW q \in Procs \ {p} PROVE RequestOK(q)'
      BY <2>3
    <3>1. proc'[q] = proc[q] /\ RequestOK(q)
      BY <2>1, Zenon DEF Only, BaseInv
    <3>2. proc[q].at = "writing" => proc[q].op \notin acked'
      BY <2>1, <3>1 DEF RequestOK, WriteOK
    <3>3. Grows
      BY <1>1, <2>1, SameGrows
    <3> QED
      BY <1>1, <2>1, <3>1, <3>2, <3>3, RequestKept
  <2>5. hints' \subseteq Coords \X Nodes \X DOMAIN ops'
    <3>1. hints \subseteq Coords \X Nodes \X DOMAIN ops /\ Home[p] \in Coords
      BY DEF BaseInv, TypeOK, CoordinatorAssumption
    <3> QED
      BY <1>1, <2>1, <3>1
  <2>6. Types'
    BY <1>1, <2>1 DEF Types, Only
  <2>7. TypeOK' /\ AfterBefore' /\ OpsDiffer'
    <3>1. \A q \in Procs : proc'[q].at \in {"idle", "existing", "clock", "writing", "reading", "read"}
      BY <2>1, Zenon DEF Only, Request
    <3>2. OpsDiffer'
      BY <2>1 DEF BaseInv, OpsDiffer, Only
    <3> QED
      BY <2>1, <2>5, <3>1, <3>2 DEF BaseInv, TypeOK, AfterBefore
  <2> QED
    BY <2>4, <2>6, <2>7 DEF BaseInv
<1> QED
  BY <1>2, <1>3

LEMMA RestartOK ==
  ASSUME BaseInv, NEW c \in Coords, Restart(c)
  PROVE  BaseInv'
<1>1. /\ UNCHANGED <<ops, store, net, applied, idem, acked>> /\ hints' \subseteq hints
      /\ proc' \in [Procs -> Request] /\ local' \in [Coords -> Nat]
      /\ \A p \in Procs : proc'[p] = proc[p] \/ proc'[p] = Idle
  BY RestartStep DEF BaseInv
<1>2. Types /\ Types' /\ Grows
  BY <1>1, SameGrows DEF BaseInv, Types
<1>3. ASSUME NEW q \in Procs PROVE RequestOK(q)'
  <2>1. CASE proc'[q] = Idle
    BY <1>2, <2>1, IdleOK
  <2>2. CASE proc'[q] = proc[q]
    <3>1. RequestOK(q) /\ (proc[q].at = "writing" => proc[q].op \notin acked')
      BY <1>1 DEF BaseInv, RequestOK, WriteOK
    <3> QED
      BY <1>1, <1>2, <2>2, <3>1, RequestKept
  <2> QED
    BY <1>1, <2>1, <2>2
<1>4. OpsDiffer'
  <2>1. \A q \in Procs : proc'[q].at = "writing" => proc'[q] = proc[q]
    BY <1>1, IdleIs, Zenon
  <2> QED
    BY <2>1 DEF BaseInv, OpsDiffer
<1>5. TypeOK' /\ AfterBefore'
  <2>1. \A q \in Procs : proc'[q].at \in {"idle", "existing", "clock", "writing", "reading", "read"}
    BY <1>1, Zenon DEF Request
  <2> QED
    BY <1>1, <2>1 DEF BaseInv, TypeOK, AfterBefore
<1> QED
  BY <1>2, <1>3, <1>4, <1>5 DEF BaseInv

LEMMA BaseInit == ASSUME Init PROVE BaseInv
<1>1. Len(ops) = 0 /\ DOMAIN ops = {} /\ ops \in Seq(Write)
  BY DEF Init
<1>2. proc \in [Procs -> Request] /\ \A p \in Procs : proc[p] = Idle
  BY IdleIs, Zenon DEF Init
<1>3. Types
  BY <1>1, <1>2 DEF Init, Types
<1>4. \A p \in Procs : proc[p].at = "idle" /\ proc[p].base = 0 /\ proc[p].must = {}
        /\ \A n \in Nodes : proc[p].val[n] = 0
  BY <1>2, IdleIs, Zenon
<1>5. \A p \in Procs : RequestOK(p)
  BY <1>1, <1>4 DEF RequestOK, ValuesOK
<1>6. TypeOK /\ AfterBefore /\ OpsDiffer
  BY <1>1, <1>4 DEF Init, TypeOK, AfterBefore, OpsDiffer
<1> QED
  BY <1>3, <1>5, <1>6 DEF BaseInv

LEMMA BaseStep == ASSUME CoordinatorAssumption, BaseInv, [Next]_vars PROVE BaseInv'
<1>1. CASE UNCHANGED vars
  <2> USE <1>1 DEF vars
  <2>1. Types' /\ TypeOK' /\ AfterBefore' /\ OpsDiffer'
    BY DEF BaseInv, Types, TypeOK, AfterBefore, OpsDiffer
  <2>2. ASSUME NEW q \in Procs PROVE RequestOK(q)'
    <3>1. RequestOK(q) /\ (proc[q].at = "writing" => proc[q].op \notin acked')
      BY DEF BaseInv, RequestOK, WriteOK
    <3>2. Grows /\ Types
      BY SameGrows DEF BaseInv
    <3> QED
      BY <3>1, <3>2, RequestKept
  <2> QED
    BY <2>1, <2>2 DEF BaseInv
<1>2. CASE Next
  <2>1. CASE \E p \in Procs : \/ ReadExistingValue(p) \/ ReturnRead(p)
                              \/ \E l \in Levels : BeginRead(p, l)
                              \/ \E l \in Levels, k \in IKeys \cup {""} : BeginWrite(p, l, k)
                              \/ \E n \in Nodes : ReadReplica(p, n) \/ FailRead(p, n)
    BY <2>1, RequestSteps, Zenon
  <2>2. CASE \E p \in Procs : StartWrites(p) \/ FinishWrite(p) \/ FinishRead(p)
    BY <2>2, StartWritesOK, FinishWriteOK, FinishReadOK, Zenon
  <2>3. CASE \E n \in Nodes, o \in 1..Len(ops) : Deliver(n, o) \/ Refuse(n, o)
    BY <2>3, AnswerOK, Zenon
  <2>4. CASE \E p \in Procs, n \in Nodes, f \in Faults : FailWrite(p, n, f)
    BY <2>4, FailWriteOK, Zenon
  <2>5. CASE \E c \in Coords : Restart(c)
    BY <2>5, RestartOK, Zenon
  <2>6. CASE Done
    BY <1>1, <2>6, Zenon DEF Done
  <2> QED
    BY <1>2, <2>1, <2>2, <2>3, <2>4, <2>5, <2>6, Zenon DEF Next
<1> QED
  BY <1>1, <1>2

\* Types, for every number of coordinators, requests and replicas and all faults: writes
\* are answered, hinted and delivered only after they were made, a replica holds a
\* version that was delivered to it, and no delivered write is still under way.
THEOREM RequestsKeepTypes == ASSUME CoordinatorAssumption PROVE Spec => []TypeOK
<1>1. BaseInv => TypeOK
  BY DEF BaseInv
<1> QED
  BY <1>1, BaseInit, BaseStep, PTL DEF Spec

\* Which step may do what: only StartWrites makes a write, only FinishWrite answers one,
\* and a coordinator's timestamp changes only when it makes a write or restarts.
LEMMA StepChanges ==
  ASSUME BaseInv, [Next]_vars
  PROVE  /\ \/ ops' = ops /\ local' = local
            \/ ops' = ops /\ \E c \in Coords : Restart(c)
            \/ acked' = acked /\ \E p \in Procs : StartWrites(p)
         /\ acked' = acked \/ \E p \in Procs : FinishWrite(p)
<1>1. ASSUME NEW p \in Procs,
             \/ ReadExistingValue(p) \/ FinishRead(p) \/ ReturnRead(p)
             \/ \E l \in Levels : BeginRead(p, l)
             \/ \E l \in Levels, k \in IKeys \cup {""} : BeginWrite(p, l, k)
             \/ \E n \in Nodes : ReadReplica(p, n) \/ FailRead(p, n)
             \/ \E n \in Nodes, f \in Faults : FailWrite(p, n, f)
      PROVE  UNCHANGED <<ops, local, acked>>
  BY <1>1, Zenon DEF ReadExistingValue, FinishRead, ReturnRead, BeginRead, BeginWrite, ReadReplica,
                     FailRead, FailWrite
<1>2. ASSUME NEW p \in Procs, FinishWrite(p) PROVE UNCHANGED <<ops, local>>
  BY <1>2, Zenon DEF FinishWrite
<1>3. ASSUME NEW p \in Procs, StartWrites(p) PROVE acked' = acked
  BY <1>3, Zenon DEF StartWrites
<1>4. ASSUME NEW n \in Nodes, NEW o \in 1..Len(ops), Deliver(n, o) \/ Refuse(n, o)
      PROVE  UNCHANGED <<ops, local, acked>>
  BY <1>4, Zenon DEF Deliver, Refuse
<1>5. ASSUME NEW c \in Coords, Restart(c) PROVE ops' = ops /\ acked' = acked
  BY <1>5, Zenon DEF Restart
<1>6. ASSUME Done \/ UNCHANGED vars PROVE UNCHANGED <<ops, local, acked>>
  BY <1>6, Zenon DEF Done, vars
<1>7. CASE Next
  BY <1>1, <1>2, <1>3, <1>4, <1>5, <1>6, <1>7, Zenon DEF Next
<1>8. CASE UNCHANGED vars
  BY <1>6, <1>8, Zenon
<1> QED
  BY <1>7, <1>8

\* A write that was delivered stays delivered, and a step that makes a write changes
\* none of those before it.
LEMMA StepGrows ==
  ASSUME CoordinatorAssumption, BaseInv, [Next]_vars
  PROVE  Grows
<1>1. Types /\ Len(ops) \in Nat
  BY OpsIs DEF BaseInv
<1>2. acked \subseteq acked'
  BY StepChanges, Zenon DEF FinishWrite
<1>3. applied \subseteq applied'
  BY Zenon DEF Next, vars, ReadExistingValue, StartWrites, FinishWrite, FinishRead, ReturnRead, BeginRead,
         BeginWrite, ReadReplica, FailRead, FailWrite, Deliver, Refuse, Restart, Done
<1>4. ASSUME NEW p \in Procs, StartWrites(p)
      PROVE  /\ Len(ops') \in Nat /\ Len(ops) <= Len(ops')
             /\ \A o \in 1..Len(ops) : ops'[o] = ops[o]
  <2>1. proc[p].base \in 0..Len(ops)
    BY DEF BaseInv, RequestOK
  <2>2. Len(ops') = Len(ops) + 1 /\ \A i \in 1..Len(ops) : ops'[i] = ops[i]
    BY <1>1, <1>4, <2>1, StartWritesStep
  <2> QED
    BY <1>1, <2>2
<1>5. /\ Len(ops') \in Nat /\ Len(ops) <= Len(ops')
      /\ \A o \in 1..Len(ops) : ops'[o] = ops[o]
  BY <1>1, <1>4, StepChanges
<1> QED
  BY <1>2, <1>3, <1>5 DEF Grows
==============================================================================
