----------------------------- MODULE CacheRead ------------------------------
(***************************************************************************)
(* What a cache hit returns while the same key is written.  Get hands out  *)
(* a pointer to the entry, StorageService.Read copies its fields after the *)
(* lock is released, and Put changes the entry in place.                   *)
(*                                                                         *)
(* The fields are words: the pointer and the length of the value, and the  *)
(* vector clock.  A word holds the number of the Put it comes from.  The   *)
(* order in which a racing goroutine sees words stored or loads them is    *)
(* any.                                                                    *)
(***************************************************************************)
EXTENDS Naturals

CONSTANTS
  Readers,
  MaxPuts   \* bound: Puts of the key

CacheReadAssumption == MaxPuts \in Nat

VARIABLES
  entry,   \* the words of the cached entry
  puts,    \* Puts so far
  toStore, \* the words the Put that holds the lock has yet to store
  read     \* a reader's copy, NoRead when it is idle

vars == <<entry, puts, toStore, read>>

Words == {"pointer", "length", "clock"}

NoRead == [from |-> 0, toLoad |-> {}, words |-> [w \in Words |-> 0]]

Init ==
  /\ entry = [w \in Words |-> 1] /\ puts = 1 /\ toStore = {}
  /\ read = [r \in Readers |-> NoRead]

\* Mutant: Get without the lock.
GetUnlocked(r) ==
  /\ read[r] = NoRead
  /\ read' = [read EXCEPT ![r] = [NoRead EXCEPT !.from = puts, !.toLoad = Words]]
  /\ UNCHANGED <<entry, puts, toStore>>

\* Get finds the entry under the lock.
Get(r) ==
  /\ read[r] = NoRead /\ toStore = {}
  /\ read' = [read EXCEPT ![r] = [NoRead EXCEPT !.from = puts, !.toLoad = Words]]
  /\ UNCHANGED <<entry, puts, toStore>>

\* Read copies a field of the entry, without the lock,
Load(r, w) ==
  /\ w \in read[r].toLoad
  /\ read' = [read EXCEPT ![r].toLoad = @ \ {w}, ![r].words[w] = entry[w]]
  /\ UNCHANGED <<entry, puts, toStore>>

\* and returns them.
Return(r) ==
  /\ read[r] # NoRead /\ read[r].toLoad = {}
  /\ read' = [read EXCEPT ![r] = NoRead]
  /\ UNCHANGED <<entry, puts, toStore>>

\* Put takes the lock
Put ==
  /\ toStore = {} /\ puts < MaxPuts
  /\ puts' = puts + 1 /\ toStore' = Words
  /\ UNCHANGED <<entry, read>>

\* and changes the entry.
Store(w) ==
  /\ w \in toStore
  /\ toStore' = toStore \ {w} /\ entry' = [entry EXCEPT ![w] = puts]
  /\ UNCHANGED <<puts, read>>

Next ==
  \/ \E r \in Readers : Get(r) \/ Return(r) \/ \E w \in Words : Load(r, w)
  \/ Put \/ \E w \in Words : Store(w)

Spec == Init /\ [][Next]_vars

------------------------------------------------------------------------------
\* Properties.

Loaded(r) == Words \ read[r].toLoad

\* Whatever a reader copies is at least as new as the last Put that was complete
\* when Get found the entry.
NeverOlder == \A r \in Readers : read[r] # NoRead =>
  \A w \in Loaded(r) : read[r].words[w] >= read[r].from

------------------------------------------------------------------------------
\* What the documentation or a comment says, and this code does not do: TLC finds
\* a counterexample to each of these.

\* What Read returns comes from one Put: the value has its length and its clock.
ReadsAreWhole == \A r \in Readers :
  \A v, w \in Loaded(r) : read[r].words[v] = read[r].words[w]
==============================================================================
