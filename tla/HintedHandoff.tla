--------------------------- MODULE HintedHandoff ---------------------------
(***************************************************************************)
(* HintedHandoffService: the hints a coordinator keeps in memory for one   *)
(* storage node, and the goroutines that replay them.  A goroutine is      *)
(* started on every tick, whether or not the last one has finished; each   *)
(* works on a copy of the list, and the hints in the copies are shared.    *)
(*                                                                         *)
(* A hint is the number of the StoreHint call that made it.  Hints are     *)
(* appended, so a list is the set of its hints in the order of numbers.    *)
(***************************************************************************)
EXTENDS Integers, Sequences, FiniteSets, FiniteSetsExt

CONSTANTS
  Workers,     \* replay goroutines that may run at a time
  KeyOf,       \* the key of each hint: 1..Len(KeyOf) are the hints (bound)
  MaxHints,    \* maxHints, per node
  MaxRetries   \* the retries after which a hint is dropped (10 in the code)

HintedHandoffAssumption ==
  /\ MaxHints \in Nat \ {0} /\ MaxRetries \in Nat \ {0}
  /\ KeyOf \in Seq(Range(KeyOf))

VARIABLES
  list,      \* hints[nodeID]
  stored,    \* StoreHint calls so far
  old,       \* hints older than hintTTL: 1..old
  retries,   \* Retries of each hint
  worker,    \* the replay goroutines
  delivered, \* hints the node has received
  panicked   \* removeHint has panicked: the process is gone

vars == <<list, stored, old, retries, worker, delivered, panicked>>

Hints == DOMAIN KeyOf
Idle == [at |-> "idle", todo |-> {}, seen |-> 0]

Init ==
  /\ list = {} /\ stored = 0 /\ old = 0 /\ delivered = {} /\ panicked = FALSE
  /\ retries = [h \in Hints |-> 0]
  /\ worker = [w \in Workers |-> Idle]

\* StoreHint: at the limit the oldest hint makes room.
StoreHint ==
  /\ stored < Len(KeyOf)
  /\ stored' = stored + 1
  /\ list' = {stored'} \cup (IF Cardinality(list) >= MaxHints THEN list \ {Min(list)} ELSE list)
  /\ UNCHANGED <<old, retries, worker, delivered, panicked>>

\* Time passes: the oldest hint that is younger than hintTTL no longer is.
Age ==
  /\ old < stored
  /\ old' = old + 1
  /\ UNCHANGED <<list, stored, retries, worker, delivered, panicked>>

\* A tick: replayAllHints starts replayHintsForNode, which copies the list.
Tick(w) ==
  /\ worker[w].at = "idle" /\ list # {}
  /\ worker' = [worker EXCEPT ![w] = [Idle EXCEPT !.at = "next", !.todo = list]]
  /\ UNCHANGED <<list, stored, old, retries, delivered, panicked>>

\* Mutant: the hint to remove is recognised by its key alone.
WithoutKey(hs, h) == {g \in hs : KeyOf[g] # KeyOf[h]}

\* The list without the hint of the same key and timestamp.
Without(hs, h) == {g \in hs : KeyOf[g] # KeyOf[h] \/ g # h}

\* removeHint: make([]*Hint, 0, len(nodeHints)-1) panics on an empty list.
RemoveHint(h) ==
  /\ list' = Without(list, h)
  /\ panicked' = (list = {})

\* The hint that a goroutine works on.
First(w) == Min(worker[w].todo)

\* What it does after that one.
Advance(w) ==
  LET todo == worker[w].todo \ {First(w)}
  IN  worker' = [worker EXCEPT ![w] = IF todo = {} THEN Idle
                                      ELSE [at |-> "next", todo |-> todo, seen |-> 0]]

DropExpired(w) ==
  /\ worker[w].at = "next" /\ First(w) <= old
  /\ RemoveHint(First(w))
  /\ Advance(w)
  /\ UNCHANGED <<stored, old, retries, delivered>>

\* replayHint builds a StorageNode with an id only: "Host and Port would be
\* fetched from metadata store".
HasAddress == FALSE

\* The hint is written to the node, or the write fails, as it does to a node
\* without an address; the failure then reads Retries.
Replay(w) ==
  /\ worker[w].at = "next" /\ First(w) > old
  /\ LET h == First(w)
     IN IF HasAddress
        THEN /\ delivered' = delivered \cup {h}
             /\ RemoveHint(h)
             /\ Advance(w)
        ELSE /\ worker' = [worker EXCEPT ![w].at = "failed", ![w].seen = retries[h]]
             /\ UNCHANGED <<list, delivered, panicked>>
  /\ UNCHANGED <<stored, old, retries>>

\* Mutant: a hint is tried again for ever.
CountRetryForever(w) ==
  /\ worker[w].at = "failed"
  /\ retries' = [retries EXCEPT ![First(w)] = 1]
  /\ UNCHANGED <<list, panicked>>
  /\ Advance(w)
  /\ UNCHANGED <<stored, old, delivered>>

\* Retries++ of a shared hint without a lock (seen is what was read), and the
\* hint is dropped after too many.
CountRetry(w) ==
  /\ worker[w].at = "failed"
  /\ LET h == First(w)
     IN /\ retries' = [retries EXCEPT ![h] = worker[w].seen + 1]
        /\ IF retries'[h] >= MaxRetries THEN RemoveHint(h) ELSE UNCHANGED <<list, panicked>>
  /\ Advance(w)
  /\ UNCHANGED <<stored, old, delivered>>

Step(w) == Tick(w) \/ DropExpired(w) \/ Replay(w) \/ CountRetry(w)

\* The service has nothing left to do, or the process is gone.
Quiet ==
  /\ \/ panicked
     \/ stored = Len(KeyOf) /\ old = stored /\ list = {}
        /\ \A w \in Workers : worker[w].at = "idle"
  /\ UNCHANGED vars

Next == \/ ~panicked /\ (StoreHint \/ Age \/ \E w \in Workers : Step(w))
        \/ Quiet

Spec == Init /\ [][Next]_vars

\* The ticker ticks and goroutines run; writes may or may not come, and TTLs
\* are so long that no hint need expire.
FairSpec == Spec /\ \A w \in Workers : WF_vars(~panicked /\ Step(w))

------------------------------------------------------------------------------
\* Properties.

\* The hints of a node stay within maxHints.
TypeOK ==
  /\ Cardinality(list) <= MaxHints /\ list \subseteq 1..stored
  /\ retries \in [Hints -> Nat] /\ delivered \subseteq Hints /\ panicked \in BOOLEAN
  /\ \A w \in Workers : worker[w].at # "idle" => worker[w].todo # {}

\* A hint leaves the list only because it was delivered, is too old, was tried
\* too often or had to make room, even while several goroutines work on copies.
DropsForCause ==
  \A h \in list \ list' :
    \/ h \in delivered' \/ h <= old
    \/ retries'[h] >= MaxRetries
    \/ Cardinality(list) = MaxHints /\ stored' > stored
DroppedForCause == [][DropsForCause]_vars

\* No hint is kept for ever: it is delivered, or given up after its retries.
HintsAreSettled ==
  \A h \in Hints : (h \in list) ~> (h \notin list)

------------------------------------------------------------------------------
\* What the documentation or a comment says, and this code does not do: TLC finds
\* a counterexample to each of these.

\* removeHint never panics, also when two replays overlap.
NoPanic == ~panicked

\* A hint that does not expire and is not displaced reaches its node.
HintsAreDelivered ==
  \A h \in Hints : (h \in list) ~> (h \in delivered \/ h <= old)
==============================================================================
