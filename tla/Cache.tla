------------------------------- MODULE Cache --------------------------------
(***************************************************************************)
(* CacheService of a storage node: sizes, scores and eviction.  Each       *)
(* operation holds the lock; a Put that evicts does so step by step.       *)
(*                                                                         *)
(* A value is its size, which includes the key and the 64 bytes the code   *)
(* adds.  Weights are in tenths.  The score is computed right after        *)
(* LastAccess is set, so its recency part is the time that has passed      *)
(* since: none.                                                            *)
(***************************************************************************)
EXTENDS Integers, FiniteSets, FiniteSetsExt, Functions

CONSTANTS
  Keys,       \* composite keys
  Sizes,      \* sizes of entries
  MaxSize,    \* config.MaxSize
  Window,     \* config.AdaptiveWindow
  MaxCount,   \* bound: accesses of an entry
  MaxTime     \* bound: the clock

\* The configuration has room for the largest value that is accepted.
CacheAssumption ==
  /\ Sizes \subseteq 1..MaxSize
  /\ MaxSize \in Nat /\ Window \in Nat /\ MaxCount \in Nat /\ MaxTime \in Nat

VARIABLES
  cache,    \* the entries: [size, count, last, score]
  size,     \* currentSize
  weight,   \* frequencyWeight
  put,      \* the Put that is making room, or NoPut
  now       \* the clock

vars == <<cache, size, weight, put, now>>

NoPut == [key |-> "none", size |-> 0]

\* calculateScore.
CalculateScore(count, last) == weight * count - (10 - weight) * (now - last)

Entry(n, count) == [size |-> n, count |-> count, last |-> now, score |-> CalculateScore(count, now)]

With(k, e) == [j \in DOMAIN cache \cup {k} |-> IF j = k THEN e ELSE cache[j]]

Init ==
  /\ cache = [k \in {} |-> 0] /\ size = 0 /\ weight = 5
  /\ put = NoPut /\ now = 0

\* Get counts an access.
Get(k) ==
  /\ put = NoPut /\ k \in DOMAIN cache /\ cache[k].count < MaxCount
  /\ cache' = With(k, Entry(cache[k].size, cache[k].count + 1))
  /\ UNCHANGED <<size, weight, put, now>>

\* Put of a key that is there changes it in place.
Update(k, n) ==
  /\ put = NoPut /\ k \in DOMAIN cache /\ cache[k].count < MaxCount
  /\ cache' = With(k, Entry(n, cache[k].count + 1))
  /\ size' = size - cache[k].size + n
  /\ UNCHANGED <<weight, put, now>>

\* Put of another key takes the lock,
Put(k, n) ==
  /\ put = NoPut /\ k \notin DOMAIN cache
  /\ put' = [key |-> k, size |-> n]
  /\ UNCHANGED <<cache, size, weight, now>>

\* The entry evictLowestScore deletes, one with the lowest score: none in an
\* empty cache, and the loop goes on.
Evicted ==
  LET lowest == {k \in DOMAIN cache : \A j \in DOMAIN cache : cache[k].score <= cache[j].score}
  IN  IF lowest = {} THEN {{}} ELSE {{k} : k \in lowest}

\* Mutant: the size is not given back.
EvictKeepingSize ==
  /\ put # NoPut /\ size + put.size > MaxSize
  /\ \E gone \in Evicted : cache' = Restrict(cache, DOMAIN cache \ gone)
  /\ UNCHANGED <<size, weight, put, now>>

\* evicts a lowest score while there is no room,
EvictLowestScore ==
  /\ put # NoPut /\ size + put.size > MaxSize
  /\ \E gone \in Evicted :
       /\ cache' = Restrict(cache, DOMAIN cache \ gone)
       /\ size' = size - MapThenSumSet(LAMBDA k : cache[k].size, gone)
  /\ UNCHANGED <<weight, put, now>>

\* and adds the entry.
Add ==
  /\ put # NoPut /\ size + put.size <= MaxSize
  /\ cache' = With(put.key, Entry(put.size, 1))
  /\ size' = size + put.size /\ put' = NoPut
  /\ UNCHANGED <<weight, now>>

Remove(k) ==
  /\ put = NoPut /\ k \in DOMAIN cache
  /\ cache' = Restrict(cache, DOMAIN cache \ {k})
  /\ size' = size - cache[k].size
  /\ UNCHANGED <<weight, put, now>>

\* AdjustWeights, by the part of the entries that were accessed in the window.
\* (Nothing in the repository calls it yet.)
AdjustWeights ==
  /\ put = NoPut /\ DOMAIN cache # {}
  /\ LET recent == Cardinality({k \in DOMAIN cache : now - cache[k].last < Window})
         n      == Cardinality(DOMAIN cache)
     IN  weight' = IF 10 * recent > 7 * n THEN 3 ELSE IF 10 * recent < 3 * n THEN 7 ELSE 5
  /\ UNCHANGED <<cache, size, put, now>>

Tick ==
  /\ now < MaxTime /\ now' = now + 1
  /\ UNCHANGED <<cache, size, weight, put>>

Next ==
  \/ \E k \in Keys : Get(k) \/ Remove(k) \/ \E n \in Sizes : Update(k, n) \/ Put(k, n)
  \/ EvictLowestScore \/ Add \/ AdjustWeights \/ Tick

\* The goroutine of a Put goes on.
Spec == Init /\ [][Next]_vars /\ WF_vars(EvictLowestScore \/ Add)

------------------------------------------------------------------------------
\* Properties.

\* A Put returns, also when updates have made the cache larger than its limit.
PutReturns == (put # NoPut) ~> (put = NoPut)

------------------------------------------------------------------------------
\* What the documentation or a comment says, and this code does not do: TLC finds
\* a counterexample to each of these.

\* The cache stays within its limit.
WithinLimit == size <= MaxSize

\* An entry is not evicted before one that was accessed earlier and no more often.
RecencyCounts ==
  [][ \A k \in DOMAIN cache \ DOMAIN cache' : put # NoPut =>
        \A j \in DOMAIN cache : cache[j].last < cache[k].last => cache[j].count > cache[k].count ]_vars
==============================================================================
