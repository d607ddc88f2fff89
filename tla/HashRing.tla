------------------------------ MODULE HashRing ------------------------------
(***************************************************************************)
(* The consistent hash ring (ConsistentHasher), how RoutingService changes *)
(* it, and the key ranges KeyRangeService computes from it when a node     *)
(* joins or leaves.  The refresh clears the ring and adds the nodes one by *)
(* one, and a range calculation takes the lock of the ring for each lookup *)
(* only: the two interleave.                                               *)
(*                                                                         *)
(* The hash space is 0..Top; hash[n][i] is the position of virtual node i  *)
(* of node n, chosen once and for all.                                     *)
(***************************************************************************)
EXTENDS Integers, Sequences, FiniteSets, SequencesExt

CONSTANTS
  Nodes,       \* storage nodes
  NoNode,      \* the empty node id
  Top,         \* the largest hash
  HashFns,     \* hash assignments to consider
  VNodes,      \* virtual nodes per node
  Joined,      \* the nodes in the metadata store at the start
  RF,          \* replication factor
  MaxSteps     \* bound: changes of the ring or of the metadata store

HashRingAssumption ==
  /\ NoNode \notin Nodes /\ Joined \subseteq Nodes
  /\ Top \in Nat /\ VNodes \in Nat \ {0} /\ RF \in Nat \ {0} /\ MaxSteps \in Nat
  /\ \A f \in HashFns : DOMAIN f = Nodes /\ \A n \in Nodes : Len(f[n]) >= VNodes

VARIABLES
  hash,     \* the positions of the virtual nodes
  ring,     \* ConsistentHasher: the sorted hashes, and whose they are
  db,       \* the nodes the metadata store lists for the ring
  todo,     \* nodes the refresh has still to add
  busy,     \* the refresh: "no", "read" the nodes, or "fill" (it holds RoutingService.mu)
  calc,     \* a range calculation
  steps     \* changes so far

vars == <<hash, ring, db, todo, busy, calc, steps>>

Space == 0..Top
EmptyRing == [at |-> <<>>, of |-> <<>>]
Members(r) == {r.of[h] : h \in DOMAIN r.of}

------------------------------------------------------------------------------
\* ConsistentHasher.

\* AddNode appends the hashes of the virtual nodes and sorts; a node that is
\* there already is added once more.
AddNode(r, n, count) ==
  LET hs == SubSeq(hash[n], 1, count)
  IN  [at |-> SortSeq(r.at \o hs, LAMBDA a, b : a < b),
       of |-> [h \in DOMAIN r.of \cup ToSet(hs) |-> IF h \in ToSet(hs) THEN n ELSE r.of[h]]]

\* RemoveNode takes out the hashes of the node, if it is there.
RemoveNode(r, n) ==
  LET hs == {h \in DOMAIN r.of : r.of[h] = n}
  IN  [at |-> SelectSeq(r.at, LAMBDA h : h \notin hs),
       of |-> [h \in DOMAIN r.of \ hs |-> r.of[h]]]

\* sort.Search: the first hash not below the key, wrapping around.
Search(r, k) ==
  LET later == {i \in DOMAIN r.at : r.at[i] >= k}
  IN  IF later = {} THEN 1 ELSE CHOOSE i \in later : \A j \in later : i <= j

GetNodeForHash(r, k) == IF r.at = <<>> THEN NoNode ELSE r.of[r.at[Search(r, k)]]

\* One step of GetNodes: a node that was not seen yet, until there are enough.
TakeUnseen(acc, n, count) ==
  IF Len(acc) < count /\ n \notin ToSet(acc) THEN Append(acc, n) ELSE acc

\* GetNodes: the nodes met when walking the ring from the key.
GetNodes(r, k, count) ==
  LET len  == Len(r.at)
      walk == [i \in 1..len |-> r.of[r.at[((Search(r, k) + i - 2) % len) + 1]]]
  IN  FoldLeft(LAMBDA acc, n : TakeUnseen(acc, n, count), <<>>, walk)

\* GetPreviousHash: zero for a hash that is not in the ring.
GetPreviousHash(r, h) ==
  LET here == {i \in DOMAIN r.at : r.at[i] = h}
      i    == CHOOSE i \in here : \A j \in here : i <= j
  IN  IF here = {} THEN 0 ELSE IF i = 1 THEN Last(r.at) ELSE r.at[i - 1]

\* cloneHashRing: counts the virtual nodes of each node, and adds it with as many.
CloneHashRing(r) ==
  LET count(n) == Cardinality({i \in DOMAIN r.at : r.of[r.at[i]] = n})
  IN  FoldLeft(LAMBDA c, n : AddNode(c, n, count(n)), EmptyRing, SetToSeq(Members(r)))

------------------------------------------------------------------------------
\* KeyRangeService.

NoCalc == [at |-> "idle", kind |-> "add", node |-> NoNode, start |-> EmptyRing,
           temp |-> EmptyRing, todo |-> <<>>, out |-> {}]

\* The virtual nodes a calculation goes through.
VNodesOf(r, n) == SelectSeq(r.at, LAMBDA h : r.of[h] = n)

\* Mutant: the previous hash is looked up in the ring in use.
RangeForNewNodeInUse(h) ==
  LET owner == GetNodeForHash(ring, h)
  IN  IF owner \in {NoNode, calc.node} THEN {}
      ELSE {[node |-> owner, start |-> GetPreviousHash(ring, h), end |-> h]}

\* CalculateKeyRangesForNewNode for one virtual node of the new node: the owner
\* is looked up in the ring that is in use, the range in its copy.
RangeForNewNode(h) ==
  LET owner == GetNodeForHash(ring, h)
  IN  IF owner \in {NoNode, calc.node} THEN {}
      ELSE {[node |-> owner, start |-> GetPreviousHash(calc.temp, h), end |-> h]}

\* CalculateKeyRangesForRemovedNode for one virtual node of the removed node.
RangeForRemovedNode(h) ==
  LET owner == GetNodeForHash(calc.temp, h)
  IN  IF owner \in {NoNode, calc.node} THEN {}
      ELSE {[node |-> owner, start |-> GetPreviousHash(ring, h), end |-> h]}

\* One step of MergeRanges, over the ranges sorted by their start.
MergeRange(acc, r) ==
  IF acc # <<>> /\ r.start <= Last(acc).end
  THEN IF r.end > Last(acc).end THEN [acc EXCEPT ![Len(acc)].end = r.end] ELSE acc
  ELSE Append(acc, r)

MergeRanges(rs) == FoldLeft(MergeRange, <<>>, SetToSortSeq(rs, LAMBDA a, b : a.start < b.start))

\* keyInRanges of the storage node.
KeyInRange(k, r) == \/ k >= r.start /\ k < r.end
                    \/ r.start > r.end /\ (k >= r.start \/ k < r.end)

------------------------------------------------------------------------------
\* The ring in use.

Init ==
  /\ hash \in HashFns
  /\ db = Joined
  /\ ring = FoldLeft(LAMBDA r, n : AddNode(r, n, VNodes), EmptyRing, SetToSeq(Joined))
  /\ todo = <<>> /\ busy = "no" /\ calc = NoCalc /\ steps = 0

\* The metadata store starts or stops listing a node for the ring.
ChangeList(n) ==
  /\ steps < MaxSteps
  /\ steps' = steps + 1
  /\ db' = IF n \in db THEN db \ {n} ELSE db \cup {n}
  /\ UNCHANGED <<hash, ring, todo, busy, calc>>

\* RoutingService.AddNode, of a node that has bootstrapped.
JoinRing(n) ==
  /\ busy # "fill" /\ steps < MaxSteps
  /\ steps' = steps + 1
  /\ Len(SelectSeq(ring.at, LAMBDA h : h = hash[n][1])) < 2
  /\ ring' = AddNode(ring, n, VNodes)
  /\ UNCHANGED <<hash, db, todo, busy, calc>>

\* RoutingService.RemoveNode, of a node that has left.
LeaveRing(n) ==
  /\ busy # "fill" /\ steps < MaxSteps
  /\ steps' = steps + 1
  /\ ring' = RemoveNode(ring, n)
  /\ UNCHANGED <<hash, db, todo, busy, calc>>

\* updateHashRing reads the nodes, before it takes the lock.
ReadList ==
  /\ busy = "no"
  /\ busy' = "read" /\ todo' = SetToSeq(db)
  /\ UNCHANGED <<hash, ring, db, calc, steps>>

\* Mutant: the refresh takes nothing out.
ClearNothing ==
  /\ busy = "read"
  /\ busy' = "fill" /\ todo' = SelectSeq(todo, LAMBDA n : n \notin Members(ring))
  /\ UNCHANGED <<hash, ring, db, calc, steps>>

\* It clears the ring.
ClearRing ==
  /\ busy = "read"
  /\ busy' = "fill" /\ ring' = EmptyRing
  /\ UNCHANGED <<hash, db, todo, calc, steps>>

\* It adds the next node, or is done.
RefillRing ==
  /\ busy = "fill"
  /\ IF todo = <<>>
     THEN busy' = "no" /\ UNCHANGED <<ring, todo>>
     ELSE /\ ring' = AddNode(ring, Head(todo), VNodes)
          /\ todo' = Tail(todo) /\ UNCHANGED busy
  /\ UNCHANGED <<hash, db, calc, steps>>

\* A calculation for a node that joins or leaves copies the ring.
BeginCalc(n, kind) ==
  /\ calc.at # "vnode" /\ calc.node = NoNode
  /\ LET c    == CloneHashRing(ring)
         temp == IF kind = "add" THEN AddNode(c, n, VNodes) ELSE RemoveNode(c, n)
     IN calc' = [at |-> "vnode", kind |-> kind, node |-> n, start |-> ring, temp |-> temp,
                 todo |-> VNodesOf(IF kind = "add" THEN temp ELSE ring, n), out |-> {}]
  /\ UNCHANGED <<hash, ring, db, todo, busy, steps>>

CalcVNode ==
  /\ calc.at = "vnode"
  /\ IF calc.todo = <<>>
     THEN calc' = [calc EXCEPT !.at = "done"]
     ELSE LET h == Head(calc.todo)
          IN calc' = [calc EXCEPT !.todo = Tail(@),
                       !.out = @ \cup (IF calc.kind = "add" THEN RangeForNewNode(h)
                                       ELSE RangeForRemovedNode(h))]
  /\ UNCHANGED <<hash, ring, db, todo, busy, steps>>

\* Calculations that nothing interferes with, over every ring.
Settled == (calc.at = "done" \/ steps = MaxSteps) /\ UNCHANGED vars

CalcNext ==
  \/ \E n \in Nodes : JoinRing(n) /\ calc.at = "idle" /\ n \notin Members(ring)
  \/ \E n \in Nodes : LeaveRing(n) /\ calc.at = "idle"
  \/ \E n \in Nodes \ Members(ring) : ring.at # <<>> /\ BeginCalc(n, "add")
  \/ \E n \in Members(ring) : BeginCalc(n, "remove")
  \/ CalcVNode \/ Settled

\* Calculations, refreshes and the monitors, each in steps of their own.
Next ==
  \/ \E n \in Nodes : ChangeList(n) \/ JoinRing(n) \/ LeaveRing(n)
  \/ ReadList \/ ClearRing \/ RefillRing
  \/ \E n \in Nodes \ db : BeginCalc(n, "add")
  \/ CalcVNode

Spec == Init /\ [][Next]_vars

\* The ticker of the refresh keeps ticking.
FairSpec == Spec /\ WF_vars(ReadList) /\ WF_vars(ClearRing) /\ WF_vars(RefillRing)

------------------------------------------------------------------------------
\* Properties.

\* The ring is sorted, and its map knows every hash in it and no other.
TypeOK ==
  /\ \A i, j \in DOMAIN ring.at : i < j => ring.at[i] <= ring.at[j]
  /\ DOMAIN ring.of = ToSet(ring.at)
  /\ \A n \in Members(ring) : ToSet(SubSeq(hash[n], 1, VNodes)) \subseteq DOMAIN ring.of

\* GetNodes returns as many different nodes as asked for, if there are that many,
\* and the owner of the key first.
ReplicasAreDistinct ==
  \A k \in Space, count \in 1..Cardinality(Nodes) :
    LET ns == GetNodes(ring, k, count)
        m  == Cardinality(Members(ring))
    IN  /\ Cardinality(ToSet(ns)) = Len(ns)
        /\ Len(ns) = IF count < m THEN count ELSE m
        /\ ns # <<>> => Head(ns) = GetNodeForHash(ring, k)

\* The keys between the previous hash and a virtual node, which are the node's.
Owned(k, r) == IF r.start < r.end THEN k > r.start /\ k <= r.end
               ELSE k > r.start \/ k <= r.end

\* Whose key k was, and whose it is after the change calculated for.
Before(k) == GetNodeForHash(calc.start, k)
After(k) == GetNodeForHash(IF calc.kind = "add" THEN AddNode(calc.start, calc.node, VNodes)
                           ELSE RemoveNode(calc.start, calc.node), k)

\* The ranges of a calculation are the keys that change their owner, each with the
\* node it comes from (when one joins) or goes to (when one leaves).
RangesAreWhatMoves ==
  calc.at = "done" =>
    \A k \in Space :
      {r.node : r \in {q \in calc.out : Owned(k, q)}} =
        (IF Before(k) = After(k) \/ After(k) = NoNode THEN {}
         ELSE {IF calc.kind = "add" THEN Before(k) ELSE After(k)})

\* Merging the ranges of a node neither loses a key nor adds one, where no range
\* wraps around.
MergeKeepsKeys ==
  calc.at = "done" =>
    \A n \in Nodes :
      LET rs == {r \in calc.out : r.node = n}
      IN  (\A r \in rs : r.start < r.end) =>
            \A k \in Space : (\E r \in rs : Owned(k, r))
                             <=> (\E r \in ToSet(MergeRanges(rs)) : Owned(k, r))

\* The ring in use becomes the list of the metadata store again and again.
RingFollowsList == []<>(Members(ring) = db)

------------------------------------------------------------------------------
\* What the documentation or a comment says, and this code does not do: TLC finds
\* a counterexample to each of these.

\* The copy of a ring is equal to it.
CloneIsCopy == ToSet(CloneHashRing(ring).at) = ToSet(ring.at)

\* The source node counts every key that moves as one to be streamed.
MovedKeysAreStreamed ==
  calc.at = "done" =>
    \A k \in Space : Before(k) # After(k) => \E r \in calc.out : KeyInRange(k, r)

\* A node that joins is sent every key it becomes a replica of.
ReplicasAreStreamed ==
  calc.at = "done" /\ calc.kind = "add" =>
    \A k \in Space :
      calc.node \in ToSet(GetNodes(AddNode(calc.start, calc.node, VNodes), k, RF)) =>
        \E r \in calc.out : Owned(k, r)
==============================================================================
